---------------------------- MODULE Spec2Model ----------------------------
(***************************************************************************)
(* A model of the mesh painting brush of EnsoXR: MeshBrush.update, the     *)
(* per-surface stroke continuity maps it keeps, and the hex colour picker. *)
(*                                                                         *)
(* Numbers.  The program computes in IEEE doubles; the model computes in   *)
(* exact rationals.  A rational is a pair <<n, d>> in lowest terms with    *)
(* d > 0, so two equal values are the same pair.  World distances are      *)
(* whole centimetres (brushWorldRadius 0.05 m is 5).  A string is a        *)
(* sequence of one-character strings.                                      *)
(***************************************************************************)
EXTENDS Integers, Sequences, FiniteSets, TLC

(***************************************************************************)
(* Bounds of the model.                                                    *)
(***************************************************************************)
\* UV coordinates a ray query may resolve to are k/UVGrid, k in 0..UVGrid.
UVGrid == 1
\* World distances of a hit range over BrushWorldRadius +- DistSpread.
DistSpread == 1
\* Canvas size of the paintable surfaces of the scene, in pixels.
CanvasW == 4
CanvasH == 3
\* Longest surface name of the colour-picker specification.
MaxNameLen == 7
\* Ray origins of the ray-query specifications lie on a grid of
\* -RayGrid..RayGrid steps around the surface's axis.
RayGrid == 1

\* Send clicks and camera captures of one run of the chat.
MaxSends == 2

MaxCaptures == 1

(***************************************************************************)
(* Program constants.                                                      *)
(***************************************************************************)
\* brushWorldRadius = 0.05 (metres), in centimetres.
BrushWorldRadius == 5
\* brushRadiusPx = 10, the default of the property.
DefaultBrushRadiusPx == 10

(***************************************************************************)
(* Rationals.                                                              *)
(***************************************************************************)
Abs(x) == IF x < 0 THEN -x ELSE x

Max(a, b) == IF a >= b THEN a ELSE b

RECURSIVE GCD(_, _)
GCD(a, b) == IF b = 0 THEN a ELSE GCD(b, a % b)

\* n/d in lowest terms, d > 0.
Frac(n, d) ==
    LET g == GCD(Abs(n), d)
    IN  <<n \div g, d \div g>>

\* Math.floor(x * 0.5) for an integer x.
FloorHalf(x) == x \div 2

(***************************************************************************)
(* Strings.                                                                *)
(***************************************************************************)
HexLower == {"0", "1", "2", "3", "4", "5", "6", "7", "8", "9",
             "a", "b", "c", "d", "e", "f"}

HexUpper == {"A", "B", "C", "D", "E", "F"}

HexDigits == HexLower \cup HexUpper

\* [0-9a-fA-F]
IsHex(c) == c \in HexDigits

\* String.prototype.toLowerCase on one character (the letters a hex token holds).
LowerChar(c) ==
    CASE c = "A" -> "a" [] c = "B" -> "b" [] c = "C" -> "c"
      [] c = "D" -> "d" [] c = "E" -> "e" [] c = "F" -> "f"
      [] OTHER -> c

ToLowerCase(s) == [i \in 1..Len(s) |-> LowerChar(s[i])]

\* The value of one hex digit.
HexVal(c) ==
    CASE c = "0" -> 0 [] c = "1" -> 1 [] c = "2" -> 2 [] c = "3" -> 3
      [] c = "4" -> 4 [] c = "5" -> 5 [] c = "6" -> 6 [] c = "7" -> 7
      [] c = "8" -> 8 [] c = "9" -> 9
      [] c \in {"a", "A"} -> 10 [] c \in {"b", "B"} -> 11
      [] c \in {"c", "C"} -> 12 [] c \in {"d", "D"} -> 13
      [] c \in {"e", "E"} -> 14 [] c \in {"f", "F"} -> 15


(***************************************************************************)
(* The colour picker: _tryPickColorFromName and _hexToRgbNormalized.       *)
(***************************************************************************)
\* parseInt's "not a number".
NaN == -1

\* parseInt(s, 16) of a string of hex digits: the longest prefix of hex
\* digits of a string of at most two characters, NaN when it is empty.
ParseInt16(s) ==
    IF Len(s) = 0 \/ ~IsHex(s[1]) THEN NaN
    ELSE IF Len(s) = 1 \/ ~IsHex(s[2]) THEN HexVal(s[1])
    ELSE 16 * HexVal(s[1]) + HexVal(s[2])

\* hex.replace('#', ''): the first '#' removed.
RemoveFirstHash(s) ==
    LET at == {i \in 1..Len(s) : s[i] = "#"}
    IN  IF at = {} THEN s
        ELSE LET i == CHOOSE j \in at : \A k \in at : j <= k
             IN  SubSeq(s, 1, i - 1) \o SubSeq(s, i + 1, Len(s))

\* h.split('').map(c => c + c).join('')
DoubleEach(h) == [i \in 1..(2 * Len(h)) |-> h[(i + 1) \div 2]]

\* substring(a, b) with 0-based bounds.
Substring(s, a, b) == SubSeq(s, a + 1, b)

\* Mutant of HexToRgbNormalized: the channels come out as b, g, r.
HexToRgbNormalizedReversed(hex) ==
    LET h0 == RemoveFirstHash(hex)
        h  == IF Len(h0) = 3 THEN DoubleEach(h0) ELSE h0
        r  == ParseInt16(Substring(h, 0, 2))
        g  == ParseInt16(Substring(h, 2, 4))
        b  == ParseInt16(Substring(h, 4, 6))
    IN  IF Len(h0) # 3 /\ Len(h0) # 6 THEN [ok |-> FALSE, rgb |-> <<>>]
        ELSE IF r = NaN \/ g = NaN \/ b = NaN THEN [ok |-> FALSE, rgb |-> <<>>]
        ELSE [ok |-> TRUE, rgb |-> <<Frac(b, 255), Frac(g, 255), Frac(r, 255)>>]

\* [r/255, g/255, b/255], or null (ok = FALSE).
HexToRgbNormalized(hex) ==
    LET h0 == RemoveFirstHash(hex)
        h  == IF Len(h0) = 3 THEN DoubleEach(h0) ELSE h0
        r  == ParseInt16(Substring(h, 0, 2))
        g  == ParseInt16(Substring(h, 2, 4))
        b  == ParseInt16(Substring(h, 4, 6))
    IN  IF Len(h0) # 3 /\ Len(h0) # 6 THEN [ok |-> FALSE, rgb |-> <<>>]
        ELSE IF r = NaN \/ g = NaN \/ b = NaN THEN [ok |-> FALSE, rgb |-> <<>>]
        ELSE [ok |-> TRUE, rgb |-> <<Frac(r, 255), Frac(g, 255), Frac(b, 255)>>]

\* '#' at position i followed by n hex digits.
HexRunAt(name, i, n) ==
    /\ i + n <= Len(name)
    /\ name[i] = "#"
    /\ \A k \in 1..n : IsHex(name[i + k])

\* The leftmost position from i on where the pattern matches, 0 if none.
RECURSIVE FirstMatchFrom(_, _)
FirstMatchFrom(name, i) ==
    IF i > Len(name) THEN 0
    ELSE IF HexRunAt(name, i, 6) \/ HexRunAt(name, i, 3) THEN i
    ELSE FirstMatchFrom(name, i + 1)

\* Mutant of RegexMatch: the three-digit alternative is tried first.
RegexMatchThreeFirst(name) ==
    LET i == FirstMatchFrom(name, 1)
    IN  IF i = 0 THEN <<>>
        ELSE SubSeq(name, i, i + (IF HexRunAt(name, i, 3) THEN 3 ELSE 6))

\* name.match(/#([0-9a-fA-F]{6}|[0-9a-fA-F]{3})/): the leftmost position
\* where the pattern matches, the six-digit alternative tried first; m[0],
\* or <<>> when there is no match.
RegexMatch(name) ==
    LET i == FirstMatchFrom(name, 1)
    IN  IF i = 0 THEN <<>>
        ELSE SubSeq(name, i, i + (IF HexRunAt(name, i, 6) THEN 6 ELSE 3))

\* _tryPickColorFromName with brush colour `color`: the returned string
\* (ok = FALSE for null) and the brush colour afterwards.
TryPickColorFromName(hasName, name, color) ==
    LET hex == RegexMatch(name)
        rgb == HexToRgbNormalized(hex)
    IN  IF ~hasName \/ Len(name) = 0 THEN [ok |-> FALSE, hex |-> <<>>, color |-> color]
        ELSE IF hex = <<>> THEN [ok |-> FALSE, hex |-> <<>>, color |-> color]
        ELSE IF ~rgb.ok THEN [ok |-> FALSE, hex |-> <<>>, color |-> color]
        ELSE [ok    |-> TRUE,
              hex   |-> ToLowerCase(hex),
              color |-> <<rgb.rgb[1], rgb.rgb[2], rgb.rgb[3], Frac(1, 1)>>]

(***************************************************************************)
(* Surface identity: _stableObjectId, a 32-bit hash of the name.           *)
(***************************************************************************)
\* name.charCodeAt(i) for '_' and the lower-case letters.
LowerLetters ==
    <<"a", "b", "c", "d", "e", "f", "g", "h", "i", "j", "k", "l", "m",
      "n", "o", "p", "q", "r", "s", "t", "u", "v", "w", "x", "y", "z">>

CharCodeAt(c) ==
    IF c = "_" THEN 95
    ELSE 96 + (CHOOSE i \in 1..26 : LowerLetters[i] = c)

\* A signed 32-bit integer as a signed high and an unsigned low 16-bit half,
\* so that no intermediate value leaves 32 bits.
Lo16(x) == x % 65536

Hi16(x) == (x - Lo16(x)) \div 65536

Wrap16(h) ==
    LET m == h % 65536
    IN  IF m >= 32768 THEN m - 65536 ELSE m

FromHalves(hi, lo) == Wrap16(hi + (lo \div 65536)) * 65536 + (lo % 65536)

\* (a + b) | 0 and (a - b) | 0
AddInt32(a, b) == FromHalves(Hi16(a) + Hi16(b), Lo16(a) + Lo16(b))

SubInt32(a, b) == FromHalves(Hi16(a) - Hi16(b), Lo16(a) - Lo16(b))

\* h << 5
Shl5(h) ==
    LET low == h % 134217728
    IN  IF low >= 67108864 THEN (low - 134217728) * 32 ELSE low * 32

\* One round of the loop: h = (h << 5) - h + name.charCodeAt(i); h |= 0.
HashStep(h, c) == AddInt32(SubInt32(Shl5(h), h), CharCodeAt(c))

RECURSIVE HashFrom(_, _, _)
HashFrom(h, name, i) ==
    IF i > Len(name) THEN h ELSE HashFrom(HashStep(h, name[i]), name, i + 1)

AnonymousName == <<"a", "n", "o", "n", "y", "m", "o", "u", "s", "_", "o", "b", "j">>

\* _stableObjectId(obj)
StableObjectId(obj) ==
    IF obj.hasId THEN obj.objectId
    ELSE LET name == IF obj.hasName THEN obj.name ELSE AnonymousName
             h    == HashFrom(0, name, 1)
         IN  IF Abs(h) = 0 THEN 1 ELSE Abs(h)

\* typeof hitObj.objectId === 'number' ? hitObj.objectId : _stableObjectId(hitObj)
ObjectKey(obj) == IF obj.hasId THEN obj.objectId ELSE StableObjectId(obj)

(***************************************************************************)
(* The scene: the objects a ray can hit.  An object has a name, possibly a *)
(* numeric objectId, and possibly a MeshPaintable component.               *)
(***************************************************************************)
\* A UV coordinate pair on the grid.
GridUV(i, j) == <<Frac(i, UVGrid), Frac(j, UVGrid)>>

\* The UVs a ray can resolve to on the wall: the grid's lower and upper rows.
GridUVs == {GridUV(i, j) : i \in 0..UVGrid, j \in {0, UVGrid}}

\* getComponent(MeshPaintable) of an object that has none.
NoPaintable ==
    [created |-> FALSE, hasPositions |-> FALSE, hasUVs |-> FALSE,
     planarFallback |-> FALSE, triIndices |-> <<>>, uvSet |-> {},
     width |-> 0, height |-> 0]

\* A created MeshPaintable with UVs: its _triIndices, the UVs its mesh can
\* resolve to, and its canvas size.
Paintable(tris, uvs, w, h) ==
    [created |-> TRUE, hasPositions |-> TRUE, hasUVs |-> TRUE,
     planarFallback |-> TRUE, triIndices |-> tris, uvSet |-> uvs,
     width |-> w, height |-> h]

Wall ==
    [tag |-> "wall", hasName |-> TRUE, name |-> <<"W", "a", "l", "l">>,
     hasId |-> TRUE, objectId |-> 1, hasPaintable |-> TRUE,
     paintable |-> Paintable(<<0, 1, 2, 2, 5, 6, 7, 8, 9>>, GridUVs, CanvasW, CanvasH)]

\* Palette_#1a2b3c_swatch, a paintable palette swatch.
Swatch6 ==
    [tag |-> "swatch6", hasName |-> TRUE,
     name |-> <<"P", "a", "l", "e", "t", "t", "e", "_", "#", "1", "a", "2",
                "b", "3", "c", "_", "s", "w", "a", "t", "c", "h">>,
     hasId |-> TRUE, objectId |-> 2, hasPaintable |-> TRUE,
     paintable |-> Paintable(<<0, 1, 2>>, {GridUV(0, 0)}, CanvasW, CanvasH)]

\* A physics body that is neither a palette nor paintable.
Rock ==
    [tag |-> "rock", hasName |-> TRUE, name |-> <<"r", "o", "c", "k">>,
     hasId |-> TRUE, objectId |-> 4, hasPaintable |-> FALSE,
     paintable |-> NoPaintable]

\* A paintable surface without a numeric objectId: its key is the name's hash.
Sign ==
    [tag |-> "sign", hasName |-> TRUE, name |-> <<"s", "g", "n">>,
     hasId |-> FALSE, objectId |-> 0, hasPaintable |-> TRUE,
     paintable |-> Paintable(<<0, 1, 2>>, {GridUV(0, 0), GridUV(UVGrid, UVGrid)},
                             CanvasH, CanvasW)]

\* A second paintable surface, of one triangle.
Board ==
    [tag |-> "board", hasName |-> TRUE, name |-> <<"b", "o", "a", "r", "d">>,
     hasId |-> TRUE, objectId |-> 5, hasPaintable |-> TRUE,
     paintable |-> Paintable(<<0, 1, 2>>, {GridUV(0, UVGrid)}, CanvasW, CanvasH)]

\* Palette_#abc, a palette swatch that is not paintable.
Swatch3 ==
    [tag |-> "swatch3", hasName |-> TRUE,
     name |-> <<"P", "a", "l", "e", "t", "t", "e", "_", "#", "a", "b", "c">>,
     hasId |-> TRUE, objectId |-> 3, hasPaintable |-> FALSE,
     paintable |-> NoPaintable]

\* A physics body with neither a numeric objectId nor a MeshPaintable.
Pebble ==
    [tag |-> "pebble", hasName |-> TRUE, name |-> <<"p", "e", "b">>,
     hasId |-> FALSE, objectId |-> 0, hasPaintable |-> FALSE,
     paintable |-> NoPaintable]

\* The scenes of the brush specification.
MainScene == {Wall, Swatch6, Rock}

PairScene == {Sign, Board, Swatch3, Pebble}

\* The scenes of the colour-picker specification: one paintable surface of
\* any name over NameAlphabet of at most MaxNameLen characters, or of one of
\* the two palette names.
NameAlphabet == {"#", "F", "g"}

Names == UNION {[1..n -> NameAlphabet] : n \in 0..MaxNameLen}

PaletteNames == {Swatch6.name, Swatch3.name}

Named(name) ==
    [tag |-> "named", hasName |-> TRUE, name |-> name,
     hasId |-> TRUE, objectId |-> 1, hasPaintable |-> TRUE,
     paintable |-> Paintable(<<0, 1, 2>>, {GridUV(0, 0)}, CanvasW, CanvasH)]

\* The values of the brushRadiusPx property the model runs with.
BrushRadii == {1, 4}

\* World distances from the brush tip to the hit point: inside the radius,
\* exactly at it, and beyond it.
WorldDists ==
    {BrushWorldRadius - DistSpread, BrushWorldRadius, BrushWorldRadius + DistSpread}

\* getUVFromLocalRay returned null.
NoResult == [ok |-> FALSE, uv |-> <<>>, triIndex |-> 0]

\* What getUVFromLocalRay can return on a paintable: null, or a UV of the
\* mesh with the index of the triangle hit.
UVResults(p) ==
    {NoResult} \cup
    (IF p.created /\ p.hasPositions /\ (p.hasUVs \/ p.planarFallback)
     THEN {[ok |-> TRUE, uv |-> uv, triIndex |-> t] :
               uv \in p.uvSet, t \in 0..((Len(p.triIndices) \div 3) - 1)}
     ELSE {})

(***************************************************************************)
(* Rational arithmetic of the ray query.  Besides the rationals there are  *)
(* the three values of a double that are no number: Infinity, -Infinity    *)
(* and NaN, written as pairs with denominator 0.                           *)
(***************************************************************************)
Infinity == <<1, 0>>

NegInfinity == <<-1, 0>>

NotANumber == <<0, 0>>

IsFinite(a) == a[2] # 0

\* a + b, a - b, a * b and a / b on rationals, reducing before multiplying
\* so that no intermediate exceeds the integers the checker computes with.
RAdd(a, b) ==
    LET g == GCD(a[2], b[2])
    IN  Frac(a[1] * (b[2] \div g) + b[1] * (a[2] \div g), (a[2] \div g) * b[2])

RNeg(a) == <<-a[1], a[2]>>

RSub(a, b) == RAdd(a, RNeg(b))

RMul(a, b) ==
    IF a[1] = 0 \/ b[1] = 0 THEN <<0, 1>>
    ELSE LET g1 == GCD(Abs(a[1]), b[2])
             g2 == GCD(Abs(b[1]), a[2])
         IN  <<(a[1] \div g1) * (b[1] \div g2), (a[2] \div g2) * (b[2] \div g1)>>

\* a / b for b # 0.
RDiv(a, b) ==
    RMul(a, IF b[1] < 0 THEN <<-b[2], -b[1]>> ELSE <<b[2], b[1]>>)

\* a < b and a <= b on doubles: false whenever one side is NaN.
RLt(a, b) ==
    IF a = NotANumber \/ b = NotANumber THEN FALSE
    ELSE IF a = b THEN FALSE
    ELSE IF a = NegInfinity \/ b = Infinity THEN TRUE
    ELSE IF a = Infinity \/ b = NegInfinity THEN FALSE
    ELSE RSub(a, b)[1] < 0

RLe(a, b) ==
    IF a = NotANumber \/ b = NotANumber THEN FALSE ELSE a = b \/ RLt(a, b)

\* Math.min and Math.max of two doubles: NaN when one of them is NaN.
RMin(a, b) ==
    IF a = NotANumber \/ b = NotANumber THEN NotANumber
    ELSE IF RLt(b, a) THEN b ELSE a

RMax(a, b) ==
    IF a = NotANumber \/ b = NotANumber THEN NotANumber
    ELSE IF RLt(a, b) THEN b ELSE a

\* Math.min(Math.max(x, 0), 1)
Clamp01(x) == RMin(RMax(x, <<0, 1>>), <<1, 1>>)

\* a + b * c where c may be Infinity (b * Infinity is NaN for b = 0).
RMulAdd(a, b, c) ==
    IF IsFinite(c) THEN RAdd(a, RMul(b, c))
    ELSE IF b[1] = 0 THEN NotANumber
    ELSE IF b[1] > 0 THEN Infinity
    ELSE NegInfinity

\* n/d > 1/m for a rational <<n, d>> and a whole m > 0.
AboveOneOver(a, m) == a[1] > 0 /\ a[2] \div a[1] < m

(***************************************************************************)
(* Vectors of three integers: positions in units of 1/scale of the mesh,   *)
(* directions in whole units.                                              *)
(***************************************************************************)
VSub(a, b) == <<a[1] - b[1], a[2] - b[2], a[3] - b[3]>>

Dot(a, b) == a[1] * b[1] + a[2] * b[2] + a[3] * b[3]

Cross(a, b) ==
    <<a[2] * b[3] - a[3] * b[2], a[3] * b[1] - a[1] * b[3], a[1] * b[2] - a[2] * b[1]>>

Min3(a, b, c) == IF a <= b /\ a <= c THEN a ELSE IF b <= c THEN b ELSE c

Max3(a, b, c) == IF a >= b /\ a >= c THEN a ELSE IF b >= c THEN b ELSE c

(***************************************************************************)
(* MeshPaintable: the mesh caches and the ray query.                       *)
(***************************************************************************)
\* EPS = 1e-8 of the intersection routine and the 1e-6 of the query, as the
\* whole numbers they are one over.
InvEps == 100000000

InvMinT == 1000000

\* n / d for integers, d # 0, as a rational.
Ratio(n, d) == IF d < 0 THEN Frac(-n, -d) ELSE Frac(n, d)

NoHit == [ok |-> FALSE, t |-> <<0, 1>>, u |-> <<0, 1>>, v |-> <<0, 1>>]

\* Mutant of RayTriangleIntersect: u + v is not compared with 1.
RayTriangleIntersectNoSum(orig, dir, p0, p1, p2, scale) ==
    LET edge1 == VSub(p1, p0)
        edge2 == VSub(p2, p0)
        pv    == Cross(dir, edge2)
        det   == Dot(edge1, pv)
        tv    == VSub(orig, p0)
        qv    == Cross(tv, edge1)
    IN  IF Abs(det) <= (scale * scale - 1) \div InvEps THEN NoHit
        ELSE LET u == Ratio(Dot(tv, pv), det)
                 v == Ratio(Dot(dir, qv), det)
                 t == Ratio(Dot(edge2, qv), scale * det)
             IN  IF u[1] < 0 \/ u[1] > u[2] THEN NoHit
                 ELSE IF v[1] < 0 \/ v[1] > v[2] THEN NoHit
                 ELSE IF ~AboveOneOver(t, InvEps) THEN NoHit
                 ELSE [ok |-> TRUE, t |-> t, u |-> u, v |-> v]

\* rayTriangleIntersectMollerTrumbore.  Positions and the origin are whole
\* numbers of 1/scale, the direction is in whole units, so the determinant
\* is det / scale^2 and t is (edge2 . q) / (scale * det).
RayTriangleIntersect(orig, dir, p0, p1, p2, scale) ==
    LET edge1 == VSub(p1, p0)
        edge2 == VSub(p2, p0)
        pv    == Cross(dir, edge2)
        det   == Dot(edge1, pv)
        tv    == VSub(orig, p0)
        qv    == Cross(tv, edge1)
    IN  IF Abs(det) <= (scale * scale - 1) \div InvEps THEN NoHit
        ELSE LET u == Ratio(Dot(tv, pv), det)
                 v == Ratio(Dot(dir, qv), det)
                 t == Ratio(Dot(edge2, qv), scale * det)
             IN  IF u[1] < 0 \/ u[1] > u[2] THEN NoHit
                 ELSE IF v[1] < 0 \/ RLt(<<1, 1>>, RAdd(u, v)) THEN NoHit
                 ELSE IF ~AboveOneOver(t, InvEps) THEN NoHit
                 ELSE [ok |-> TRUE, t |-> t, u |-> u, v |-> v]

\* The scratch vectors _tmpP0, _tmpP1, _tmpP2 as constructed.
ZeroScratch == <<<<0, 0, 0>>, <<0, 0, 0>>, <<0, 0, 0>>>>

\* A MeshPaintable before start(): not created, and _positionsFlat,
\* _triIndices, _triMin and _triMax null (built is FALSE).
NoCache ==
    [created |-> FALSE, built |-> FALSE, scale |-> 1, positions |-> <<>>, hasUVs |-> FALSE,
     uvs |-> <<>>, triIndices |-> <<>>, triCount |-> 0, triMin |-> <<>>,
     triMax |-> <<>>, triAreas |-> <<>>, triCum |-> <<>>]

\* The vertex indices of the non-indexed mesh: 0, 1, 2, ...
IotaIndices(n) == [i \in 1..n |-> i - 1]

\* The three vertices of triangle t (from 0).
TriVertices(positions, triIndices, t) ==
    <<positions[triIndices[3 * t + 1] + 1], positions[triIndices[3 * t + 2] + 1],
      positions[triIndices[3 * t + 3] + 1]>>

\* cx^2 + cy^2 + cz^2 of the cross product of the triangle's edges ab and
\* ac: the area is 0.5 * Math.hypot(cx, cy, cz), kept here as the square of
\* twice the area (in units of 1/scale^4) to stay in whole numbers.
CrossSquared(tri) ==
    LET c == Cross(VSub(tri[2], tri[1]), VSub(tri[3], tri[1]))
    IN  Dot(c, c)

\* triCum[t]: the areas of the triangles before t summed, kept as the list
\* of the summands; triCum[triCount] is the sum of all of them.
CumulativeAreas(areas) == [t \in 1..(Len(areas) + 1) |-> SubSeq(areas, 1, t - 1)]

\* Mutant of BuildMeshCaches: a mesh without positions is cached as an empty
\* mesh.
BuildMeshCachesAnyMesh(mesh) ==
    IF ~mesh.hasPositions THEN [NoCache EXCEPT !.created = TRUE, !.built = TRUE]
    ELSE LET vertexCount == Len(mesh.positions)
             triIndices  == IF Len(mesh.indices) > 0 THEN mesh.indices
                            ELSE IotaIndices(3 * (vertexCount \div 3))
             triCount    == Len(triIndices) \div 3
             tri(t)      == TriVertices(mesh.positions, triIndices, t)
         IN  [created |-> TRUE, built |-> TRUE, scale |-> mesh.scale, positions |-> mesh.positions,
              hasUVs |-> mesh.hasUVs, uvs |-> mesh.uvs,
              triIndices |-> triIndices, triCount |-> triCount,
              triMin |-> [t \in 1..triCount |->
                             [k \in 1..3 |-> Min3(tri(t - 1)[1][k], tri(t - 1)[2][k],
                                                  tri(t - 1)[3][k])]],
              triMax |-> [t \in 1..triCount |->
                             [k \in 1..3 |-> Max3(tri(t - 1)[1][k], tri(t - 1)[2][k],
                                                  tri(t - 1)[3][k])]],
              triAreas |-> [t \in 1..triCount |-> CrossSquared(tri(t - 1))],
              triCum |-> CumulativeAreas([t \in 1..triCount |-> CrossSquared(tri(t - 1))])]

\* start() on an object with a mesh: created is set and _buildMeshCaches
\* fills the caches, or leaves them null when the mesh has no positions.
BuildMeshCaches(mesh) ==
    IF ~mesh.hasPositions THEN [NoCache EXCEPT !.created = TRUE]
    ELSE LET vertexCount == Len(mesh.positions)
             triIndices  == IF Len(mesh.indices) > 0 THEN mesh.indices
                            ELSE IotaIndices(3 * (vertexCount \div 3))
             triCount    == Len(triIndices) \div 3
             tri(t)      == TriVertices(mesh.positions, triIndices, t)
         IN  [created |-> TRUE, built |-> TRUE, scale |-> mesh.scale, positions |-> mesh.positions,
              hasUVs |-> mesh.hasUVs, uvs |-> mesh.uvs,
              triIndices |-> triIndices, triCount |-> triCount,
              triMin |-> [t \in 1..triCount |->
                             [k \in 1..3 |-> Min3(tri(t - 1)[1][k], tri(t - 1)[2][k],
                                                  tri(t - 1)[3][k])]],
              triMax |-> [t \in 1..triCount |->
                             [k \in 1..3 |-> Max3(tri(t - 1)[1][k], tri(t - 1)[2][k],
                                                  tri(t - 1)[3][k])]],
              triAreas |-> [t \in 1..triCount |-> CrossSquared(tri(t - 1))],
              triCum |-> CumulativeAreas([t \in 1..triCount |-> CrossSquared(tri(t - 1))])]

\* The scratch vectors after _buildMeshCaches: the last triangle's vertices.
ScratchAfterBuild(mesh, scratch) ==
    LET c == BuildMeshCaches(mesh)
    IN  IF ~c.built \/ c.triCount = 0 THEN scratch
        ELSE TriVertices(c.positions, c.triIndices, c.triCount - 1)

\* The bounding box of the ray segment, per axis, in units of 1/scale:
\* localEnd = localOrigin + localDir * maxDistance, then Math.min / Math.max.
RayEnd(orig, dir, maxDistance, scale) ==
    [k \in 1..3 |-> RMulAdd(<<orig[k], 1>>, <<dir[k] * scale, 1>>, maxDistance)]

RayMin(orig, dir, maxDistance, scale) ==
    [k \in 1..3 |-> RMin(<<orig[k], 1>>, RayEnd(orig, dir, maxDistance, scale)[k])]

RayMax(orig, dir, maxDistance, scale) ==
    [k \in 1..3 |-> RMax(<<orig[k], 1>>, RayEnd(orig, dir, maxDistance, scale)[k])]

\* Mutant of BoxesApart: a triangle whose box only touches the ray's box is
\* skipped as well.
BoxesApartOrTouching(triMin, triMax, rayMin, rayMax) ==
    \E k \in 1..3 : \/ RLe(<<triMax[k], 1>>, rayMin[k])
                    \/ RLe(rayMax[k], <<triMin[k], 1>>)

\* The test that skips a triangle: its box and the ray's box are apart on
\* some axis.
BoxesApart(triMin, triMax, rayMin, rayMax) ==
    \E k \in 1..3 : \/ RLt(<<triMax[k], 1>>, rayMin[k])
                    \/ RLt(rayMax[k], <<triMin[k], 1>>)

\* Mutant of Closer: any valid hit replaces the best one.
CloserKeepLast(hit, closestT, maxDistance) ==
    /\ hit.ok
    /\ AboveOneOver(hit.t, InvMinT)
    /\ RLe(hit.t, maxDistance)

\* hit && hit.t > 1e-6 && hit.t < closestT && hit.t <= maxDistance
Closer(hit, closestT, maxDistance) ==
    /\ hit.ok
    /\ AboveOneOver(hit.t, InvMinT)
    /\ RLt(hit.t, closestT)
    /\ RLe(hit.t, maxDistance)

\* Mutant of LoadScratch: p0 is not written and holds what p2 held before.
LoadScratchShifted(vertices, scratch) == <<scratch[3], vertices[2], vertices[3]>>

\* p0, p1, p2 = the triangle's vertices, written into the scratch vectors.
LoadScratch(vertices, scratch) == vertices

\* closestT, bestTri, bestU, bestV before the loop.
NoBest == [tri |-> -1, t |-> Infinity, u |-> <<0, 1>>, v |-> <<0, 1>>]

\* The loop over the triangles from t on: the best hit and the scratch
\* vectors at its end.
RECURSIVE ScanTriangles(_, _, _, _, _, _, _)
ScanTriangles(cache, orig, dir, maxDistance, t, best, scratch) ==
    IF t >= cache.triCount THEN [best |-> best, scratch |-> scratch]
    ELSE IF BoxesApart(cache.triMin[t + 1], cache.triMax[t + 1],
                       RayMin(orig, dir, maxDistance, cache.scale),
                       RayMax(orig, dir, maxDistance, cache.scale))
    THEN ScanTriangles(cache, orig, dir, maxDistance, t + 1, best, scratch)
    ELSE LET p   == LoadScratch(TriVertices(cache.positions, cache.triIndices, t),
                                scratch)
             hit == RayTriangleIntersect(orig, dir, p[1], p[2], p[3], cache.scale)
         IN  ScanTriangles(cache, orig, dir, maxDistance, t + 1,
                           IF Closer(hit, best.t, maxDistance)
                           THEN [tri |-> t, t |-> hit.t, u |-> hit.u, v |-> hit.v]
                           ELSE best,
                           p)

\* bestLocalHit = localOrigin + localDir * t, in whole units.
LocalHit(orig, dir, t, scale) ==
    [k \in 1..3 |-> RAdd(Frac(orig[k], scale), RMul(<<dir[k], 1>>, t))]

\* Mutant of BarycentricUV: the weights of the second and third vertex are
\* exchanged.
BarycentricUVWeightsSwapped(uvs, triIndices, best) ==
    LET uv0 == uvs[triIndices[3 * best.tri + 1] + 1]
        uv1 == uvs[triIndices[3 * best.tri + 2] + 1]
        uv2 == uvs[triIndices[3 * best.tri + 3] + 1]
        w0  == RSub(RSub(<<1, 1>>, best.u), best.v)
    IN  [k \in 1..2 |->
            Clamp01(RAdd(RAdd(RMul(w0, uv0[k]), RMul(best.v, uv1[k])),
                         RMul(best.u, uv2[k])))]

\* Mutant of BarycentricUV: the interpolated UV is returned as it is.
BarycentricUVUnclamped(uvs, triIndices, best) ==
    LET uv0 == uvs[triIndices[3 * best.tri + 1] + 1]
        uv1 == uvs[triIndices[3 * best.tri + 2] + 1]
        uv2 == uvs[triIndices[3 * best.tri + 3] + 1]
        w0  == RSub(RSub(<<1, 1>>, best.u), best.v)
    IN  [k \in 1..2 |->
            RAdd(RAdd(RMul(w0, uv0[k]), RMul(best.u, uv1[k])), RMul(best.v, uv2[k]))]

\* finalU, finalV: w0 * uv0 + w1 * uv1 + w2 * uv2 with w0 = 1 - u - v,
\* w1 = u, w2 = v, each clamped to [0, 1].
BarycentricUV(uvs, triIndices, best) ==
    LET uv0 == uvs[triIndices[3 * best.tri + 1] + 1]
        uv1 == uvs[triIndices[3 * best.tri + 2] + 1]
        uv2 == uvs[triIndices[3 * best.tri + 3] + 1]
        w0  == RSub(RSub(<<1, 1>>, best.u), best.v)
    IN  [k \in 1..2 |->
            Clamp01(RAdd(RAdd(RMul(w0, uv0[k]), RMul(best.u, uv1[k])),
                         RMul(best.v, uv2[k])))]

\* The least and the greatest of coordinate k over the positions.
RECURSIVE MinCoord(_, _, _)
MinCoord(positions, k, i) ==
    IF i = Len(positions) THEN positions[i][k]
    ELSE LET m == MinCoord(positions, k, i + 1)
         IN  IF positions[i][k] < m THEN positions[i][k] ELSE m

RECURSIVE MaxCoord(_, _, _)
MaxCoord(positions, k, i) ==
    IF i = Len(positions) THEN positions[i][k]
    ELSE LET m == MaxCoord(positions, k, i + 1)
         IN  IF positions[i][k] > m THEN positions[i][k] ELSE m

\* (hit - min) / (max - min || 1), clamped, for coordinate k of the hit.
PlanarCoord(positions, scale, localHit, k) ==
    LET lo    == MinCoord(positions, k, 1)
        hi    == MaxCoord(positions, k, 1)
        denom == IF hi - lo = 0 THEN <<1, 1>> ELSE Frac(hi - lo, scale)
    IN  Clamp01(RDiv(RSub(localHit[k], Frac(lo, scale)), denom))

\* Mutant of PlanarUV: v is taken from the Y extent.
PlanarUVFromXY(positions, scale, localHit) ==
    <<PlanarCoord(positions, scale, localHit, 1),
      PlanarCoord(positions, scale, localHit, 2)>>

\* The planar fallback: u from X and v from Z over the mesh's extents.
PlanarUV(positions, scale, localHit) ==
    <<PlanarCoord(positions, scale, localHit, 1),
      PlanarCoord(positions, scale, localHit, 3)>>

\* getUVFromLocalRay returned null.
NoUVResult == [ok |-> FALSE, uv |-> <<>>, triIndex |-> 0, localHit |-> <<>>]

\* Mutant of ResolveUV: the planar fallback is used whether enabled or not.
ResolveUVAlwaysPlanar(cache, planarFallback, best, localHit) ==
    IF best.tri = -1 THEN NoUVResult
    ELSE IF cache.hasUVs
    THEN [ok |-> TRUE, uv |-> BarycentricUV(cache.uvs, cache.triIndices, best),
          triIndex |-> best.tri, localHit |-> localHit]
    ELSE [ok |-> TRUE, uv |-> PlanarUV(cache.positions, cache.scale, localHit),
          triIndex |-> best.tri, localHit |-> localHit]

\* What getUVFromLocalRay returns for the best hit of the loop.
ResolveUV(cache, planarFallback, best, localHit) ==
    IF best.tri = -1 THEN NoUVResult
    ELSE IF cache.hasUVs
    THEN [ok |-> TRUE, uv |-> BarycentricUV(cache.uvs, cache.triIndices, best),
          triIndex |-> best.tri, localHit |-> localHit]
    ELSE IF planarFallback
    THEN [ok |-> TRUE, uv |-> PlanarUV(cache.positions, cache.scale, localHit),
          triIndex |-> best.tri, localHit |-> localHit]
    ELSE NoUVResult

\* The index cache with triangle t (from 0) exchanged with triangle 0.
HitTriangleFirst(triIndices, t) ==
    [i \in 1..Len(triIndices) |->
        IF i <= 3 THEN triIndices[3 * t + i]
        ELSE IF i > 3 * t /\ i <= 3 * t + 3 THEN triIndices[i - 3 * t]
        ELSE triIndices[i]]

\* Mutant of GetUVFromLocalRay: the call moves the triangle it hit to the
\* front of the index cache.
GetUVFromLocalRayHitFirst(cache, planarFallback, scratch, orig, dir, maxDistance) ==
    IF ~cache.built
    THEN [result |-> NoUVResult, best |-> NoBest, scratch |-> scratch, cache |-> cache]
    ELSE LET scan == ScanTriangles(cache, orig, dir, maxDistance, 0, NoBest, scratch)
             hit  == IF scan.best.tri = -1 THEN <<>>
                     ELSE LocalHit(orig, dir, scan.best.t, cache.scale)
         IN  [result |-> ResolveUV(cache, planarFallback, scan.best, hit),
              best |-> scan.best, scratch |-> scan.scratch,
              cache |-> IF scan.best.tri = -1 THEN cache
                        ELSE [cache EXCEPT !.triIndices =
                                 HitTriangleFirst(cache.triIndices, scan.best.tri)]]

\* getUVFromLocalRay: the returned value, the best hit of the loop, and the
\* scratch vectors and the caches as it leaves them.
GetUVFromLocalRay(cache, planarFallback, scratch, orig, dir, maxDistance) ==
    IF ~cache.built
    THEN [result |-> NoUVResult, best |-> NoBest, scratch |-> scratch, cache |-> cache]
    ELSE LET scan == ScanTriangles(cache, orig, dir, maxDistance, 0, NoBest, scratch)
             hit  == IF scan.best.tri = -1 THEN <<>>
                     ELSE LocalHit(orig, dir, scan.best.t, cache.scale)
         IN  [result |-> ResolveUV(cache, planarFallback, scan.best, hit),
              best |-> scan.best, scratch |-> scan.scratch, cache |-> cache]

(***************************************************************************)
(* Meshes and rays of the ray-query specifications.  A surface is a mesh   *)
(* (positions in whole numbers of 1/scale, optional UVs, optional indices) *)
(* with the planarFallback property of its MeshPaintable.                  *)
(***************************************************************************)
Surface(tag, scale, positions, uvs, indices, planarFallback) ==
    [tag |-> tag, scale |-> scale, hasPositions |-> TRUE, positions |-> positions,
     hasUVs |-> uvs # <<>>, uvs |-> uvs, indices |-> indices,
     planarFallback |-> planarFallback]

\* The corners of a square in the plane y = 0: x and z in [-1, 1].
SquareXZ == <<<<-1, 0, -1>>, <<1, 0, -1>>, <<1, 0, 1>>, <<-1, 0, 1>>>>

CornerUVs == <<<<Frac(0, 1), Frac(0, 1)>>, <<Frac(1, 1), Frac(0, 1)>>,
               <<Frac(1, 1), Frac(1, 1)>>, <<Frac(0, 1), Frac(1, 1)>>>>

QuadIndices == <<0, 1, 2, 0, 2, 3>>

\* The unit quad: x and z in [-0.5, 0.5], UVs (0,0), (1,0), (1,1), (0,1).
UnitQuad == Surface("quad", 2, SquareXZ, CornerUVs, QuadIndices, TRUE)

\* Three triangles over one another at y = 2 (a smaller one), y = 0 and
\* y = 1, in that order, without indices, with vertex UVs outside [0, 1].
Stack ==
    Surface("stack", 1,
            <<<<-2, 2, -2>>, <<0, 2, -2>>, <<-2, 2, 0>>,
              <<-2, 0, -2>>, <<2, 0, -2>>, <<-2, 0, 2>>,
              <<-2, 1, -2>>, <<2, 1, -2>>, <<-2, 1, 2>>>>,
            <<<<Frac(-1, 1), Frac(-1, 1)>>, <<Frac(2, 1), Frac(0, 1)>>,
              <<Frac(0, 1), Frac(2, 1)>>,
              <<Frac(0, 1), Frac(0, 1)>>, <<Frac(1, 1), Frac(0, 1)>>,
              <<Frac(0, 1), Frac(1, 1)>>,
              <<Frac(1, 2), Frac(1, 2)>>, <<Frac(3, 2), Frac(1, 2)>>,
              <<Frac(1, 2), Frac(-3, 2)>>>>,
            <<>>, TRUE)

\* A square without UVs, x and z in [-1, 1], planar fallback on and off.
Floor == Surface("floor", 1, SquareXZ, <<>>, QuadIndices, TRUE)

FloorNoFallback == Surface("bare", 1, SquareXZ, <<>>, QuadIndices, FALSE)

\* A square without UVs in the plane x = 1: its X extent is zero.
WallYZ ==
    Surface("wallyz", 1, <<<<1, -1, -1>>, <<1, 1, -1>>, <<1, 1, 1>>, <<1, -1, 1>>>>,
            <<>>, QuadIndices, TRUE)

\* A triangle with legs of 1/20000 in the plane y = 0.
Speck ==
    Surface("speck", 20000, <<<<0, 0, 0>>, <<1, 0, 0>>, <<0, 0, 1>>>>,
            <<<<Frac(0, 1), Frac(0, 1)>>, <<Frac(1, 1), Frac(0, 1)>>,
              <<Frac(0, 1), Frac(1, 1)>>>>,
            <<0, 1, 2>>, TRUE)

\* A mesh without the Position attribute.
NoPositions ==
    [tag |-> "nopos", scale |-> 1, hasPositions |-> FALSE, positions |-> <<>>,
     hasUVs |-> TRUE, uvs |-> CornerUVs, indices |-> QuadIndices,
     planarFallback |-> TRUE]

Surfaces == {UnitQuad, Stack, Floor, FloorNoFallback, WallYZ, Speck, NoPositions}

SurfaceOf(tag) == CHOOSE s \in Surfaces : s.tag = tag

\* maxDistance of a query: 1, the brush's 10, and the default Infinity.
MaxDistances == {<<1, 1>>, <<10, 1>>, Infinity}

\* Origins of the rays at a surface, in its units: a grid of RayGrid steps
\* around the axis at the given heights, and the points on the z and x axes.
GridOrigins(heights) ==
    {<<x, y, z>> : x \in -RayGrid..RayGrid, z \in {-RayGrid, 0, RayGrid}, y \in heights}

Origins(tag) ==
    CASE tag = "quad"   -> GridOrigins({2}) \cup {<<0, 0, 2>>}
      [] tag = "stack"  -> GridOrigins({3, -1})
      [] tag = "wallyz" -> {<<2, y, z>> : y \in -RayGrid..RayGrid, z \in {-1, 0, 1}}
      [] tag = "speck"  -> {<<0, 1, 0>>, <<0, 4, 0>>, <<1, 4, 0>>}
      [] OTHER          -> GridOrigins({1})

Dirs(tag) ==
    CASE tag = "speck"  -> {<<0, -1, 0>>, <<0, -4, 0>>, <<0, -100, 0>>}
      [] tag = "wallyz" -> {<<-1, 0, 0>>, <<1, 0, 0>>}
      [] tag = "stack"  -> {<<0, -1, 0>>, <<0, 1, 0>>, <<1, -2, 1>>}
      [] OTHER          -> {<<0, -1, 0>>, <<0, 1, 0>>, <<0, 0, -1>>, <<0, -2, 0>>}

Rays(tag) ==
    {[orig |-> o, dir |-> d, maxDistance |-> m] :
        o \in Origins(tag), d \in Dirs(tag), m \in MaxDistances}

\* The objects of a scene: one of the two fixed scenes, or the single
\* surface `name`.
FixedSceneId(kind) == [kind |-> kind, name |-> <<>>]

NamedSceneId(name) == [kind |-> "named", name |-> name]

Objects(id) ==
    CASE id.kind = "main" -> MainScene
      [] id.kind = "pair" -> PairScene
      [] id.kind = "named" -> {Named(id.name)}
      [] id.kind = "sign" -> {Sign}

(***************************************************************************)
(* The brush.                                                              *)
(***************************************************************************)
VARIABLES
    scene,            \* which scene the brush is in (fixed)
    brushRadiusPx,    \* property brushRadiusPx
    paintOnProximity, \* property paintOnProximity
    brushColor,       \* property brushColor, four rationals
    lastUV,           \* _lastUVPerObject: key -> UV
    lastTri,          \* _lastTriPerObject: key -> vertex index triple
    contactLost,      \* _contactLostPerObject: key -> boolean
    frame,            \* the last update's inputs and the branch it took
    pre,              \* what the hit object's key held when that update began
    dabs,             \* the paintAtUV calls of the last update, in order
    pickedCalls       \* the onPickedColor calls of the last update, in order

vars == <<scene, brushRadiusPx, paintOnProximity, brushColor, lastUV, lastTri,
          contactLost, frame, pre, dabs, pickedCalls>>

\* The MeshPaintable of the ray-query specifications.
VARIABLES
    cache,            \* created, and the mesh caches _positionsFlat, _uvsFlat, ...
    tmpP,             \* the scratch vectors _tmpP0, _tmpP1, _tmpP2
    query,            \* the last getUVFromLocalRay call: its ray and what it returned
    memo,             \* the first call of a run, kept for comparison
    rays              \* the rays the run queries with (fixed)

\* A second MeshBrush in the scene.  The brush variables above are the fields
\* of the brush that runs its update; `other` holds those of the brush that
\* does not.
VARIABLES
    who,              \* which of the two brushes runs its update: 0 or 1
    other             \* the other brush's brushColor and its three maps

\* The canvas of the MeshPaintable.
VARIABLES
    canvas            \* flipY, the canvas size, the last paintAtUV call and its dab

\* The CanvasAIChat component.
VARIABLES
    chat              \* conversation, apiKey, popupImage and the calls it awaits

auxVars == <<cache, tmpP, query, memo, rays, who, other, canvas, chat>>

allVars == <<vars, auxVars>>

\* What `query` and `memo` hold: no call yet, or a call, whether start() had
\* run and the caches were built when it was made, what the scratch vectors
\* held when it began, and its answer.
NoQuery ==
    [asked |-> FALSE, created |-> FALSE, built |-> FALSE, before |-> ZeroScratch, orig |-> <<0, 0, 0>>, dir |-> <<0, 0, 0>>,
     maxDistance |-> <<0, 1>>, result |-> NoUVResult, best |-> NoBest]

QueryOf(ray, c, before, answer) ==
    [asked |-> TRUE, created |-> c.created, built |-> c.built, before |-> before, orig |-> ray.orig, dir |-> ray.dir,
     maxDistance |-> ray.maxDistance, result |-> answer.result, best |-> answer.best]

\* The fields of a MeshBrush as constructed: the default colour and three
\* empty maps of its own.
NewBrush ==
    [brushColor |-> <<Frac(0, 1), Frac(0, 1), Frac(0, 1), Frac(1, 1)>>,
     lastUV |-> [k \in {} |-> 0], lastTri |-> [k \in {} |-> 0],
     contactLost |-> [k \in {} |-> 0]]

\* Math.floor of a rational.
FloorOf(a) == a[1] \div a[2]

\* No paintAtUV call yet.
NoCall == [asked |-> FALSE, created |-> FALSE, u |-> <<0, 1>>, v |-> <<0, 1>>, radiusPx |-> 0]

\* The canvas document.createElement makes in start(), textureWidth by
\* textureHeight, nothing painted on it; `centre` is <<>> or the centre
\* <<x, y>> of the dab the last paintAtUV call drew, `size` what the last
\* getCanvasSize call returned.
NoSize == [width |-> 0, height |-> 0]

NewCanvas(flipY, width, height) ==
    [flipY |-> flipY, width |-> width, height |-> height, call |-> NoCall, centre |-> <<>>,
     size |-> NoSize]

\* Mutant of PaintAtUV: v is never flipped.
PaintAtUVNoFlip(c, created, u, v, radiusPx) ==
    LET call == [asked |-> TRUE, created |-> created, u |-> u, v |-> v, radiusPx |-> radiusPx]
        cu   == Clamp01(u)
        cv   == Clamp01(v)
        x    == FloorOf(RMul(cu, <<c.width, 1>>))
        y    == FloorOf(RMul(cv, <<c.height, 1>>))
    IN  IF ~created
        THEN [c EXCEPT !.call = call, !.centre = <<>>]
        ELSE [c EXCEPT !.call = call, !.centre = <<x, y>>]

\* paintAtUV(u, v, radiusPx, colorRGBA): the canvas after the call.
PaintAtUV(c, created, u, v, radiusPx) ==
    LET call == [asked |-> TRUE, created |-> created, u |-> u, v |-> v, radiusPx |-> radiusPx]
        cu   == Clamp01(u)
        cv   == Clamp01(v)
        x    == FloorOf(RMul(cu, <<c.width, 1>>))
        y    == FloorOf(RMul(IF c.flipY THEN RSub(<<1, 1>>, cv) ELSE cv, <<c.height, 1>>))
    IN  IF ~created
        THEN [c EXCEPT !.call = call, !.centre = <<>>]
        ELSE [c EXCEPT !.call = call, !.centre = <<x, y>>]

\* getCanvasSize()
GetCanvasSize(c) == [width |-> c.width, height |-> c.height]

\* The paintAtUV calls of one update, made in order.
RECURSIVE PaintAll(_, _, _, _)
PaintAll(c, created, calls, i) ==
    IF i > Len(calls) THEN c
    ELSE PaintAll(PaintAtUV(c, created, calls[i].uv[1], calls[i].uv[2], calls[i].radiusPx),
                  created, calls, i + 1)

\* An entry of the conversation: its role and its text, the text kept as
\* what it says and the request it says it about; `req` is the request the
\* entry object was pushed for as a placeholder (0: for none).
Entry(role, kind, of, req) == [role |-> role, text |-> <<kind, of>>, req |-> req]

\* The conversation after start(): the two seed entries.
SeedConversation ==
    <<Entry("system", "session ready", 0, 0), Entry("assistant", "ready", 0, 0)>>

\* A CanvasAIChat after start(): no key, no image, nothing awaited.
NewChat ==
    [conversation |-> SeedConversation, apiKey |-> FALSE, popupImage |-> FALSE,
     pending |-> {}, capturing |-> 0, sends |-> 0, requests |-> 0, captures |-> 0]

\* A MeshPaintable as constructed, no call made, and the second brush as
\* constructed.
InitCalls ==
    /\ chat = NewChat
    /\ who = 0
    /\ other = NewBrush
    /\ cache = NoCache
    /\ tmpP = ZeroScratch
    /\ query = NoQuery
    /\ memo = NoQuery

\* The same with the default canvas: flipY on.
InitQueries ==
    /\ InitCalls
    /\ canvas = NewCanvas(TRUE, CanvasW, CanvasH)

\* The same in a specification that makes no ray query.
InitPaintable ==
    /\ InitQueries
    /\ rays = {}

\* A Map with no entries.
EmptyMap == [k \in {} |-> 0]

\* Map.prototype.set and Map.prototype.delete
MapSet(m, k, v) == [x \in DOMAIN m \cup {k} |-> IF x = k THEN v ELSE m[x]]

\* Mutant of MapDelete: Map.prototype.clear in its place.
MapClear(m, k) == EmptyMap

MapDelete(m, k) == [x \in DOMAIN m \ {k} |-> m[x]]

\* map.get(k) ?? null, null as <<>>
GetOrNull(m, k) == IF k \in DOMAIN m THEN m[k] ELSE <<>>

\* if (this._contactLostPerObject.get(key)): undefined is falsy.
ContactLostAt(m, k) == k \in DOMAIN m /\ m[k]

\* for (const key of this._lastUVPerObject.keys())
\*   this._contactLostPerObject.set(key, true);
MarkAllTracked(cl, uvs) ==
    [k \in DOMAIN cl \cup DOMAIN uvs |-> IF k \in DOMAIN uvs THEN TRUE ELSE cl[k]]

\* Mutant of MarkHitObjectId: the flag of every tracked key is set as well.
MarkHitObjectIdAndTracked(cl, obj) ==
    LET m == IF obj.hasId THEN [x \in DOMAIN cl \cup {obj.objectId} |->
                                   IF x = obj.objectId THEN TRUE ELSE cl[x]]
             ELSE cl
    IN  [k \in DOMAIN m \cup DOMAIN lastUV |-> IF k \in DOMAIN lastUV THEN TRUE ELSE m[k]]

\* hitObj.objectId ?? null; if (id !== null) this._contactLostPerObject.set(id, true)
MarkHitObjectId(cl, obj) == IF obj.hasId THEN MapSet(cl, obj.objectId, TRUE) ELSE cl

\* Mutant of ForgetIfLost: the stored entry survives a lost contact.
ForgetIfLostNever(m, cl, objectId) == m

\* if (this._contactLostPerObject.get(objectId)) map.delete(objectId)
ForgetIfLost(m, cl, objectId) ==
    IF ContactLostAt(cl, objectId) THEN MapDelete(m, objectId) ELSE m

\* Mutant of WithinRange: the distance is not compared.
WithinRangeAnyDistance(enabled, worldDist) == enabled

\* Mutant of WithinRange: paintOnProximity is not read.
WithinRangeAlwaysEnabled(enabled, worldDist) == worldDist <= BrushWorldRadius

\* Mutant of WithinRange: the comparison is strict.
WithinRangeStrict(enabled, worldDist) ==
    IF ~enabled THEN FALSE ELSE worldDist < BrushWorldRadius

\* withinRange = !paintOnProximity ? false : worldDist <= brushWorldRadius
WithinRange(enabled, worldDist) ==
    IF ~enabled THEN FALSE ELSE worldDist <= BrushWorldRadius

\* Mutant of GetTriangleVertexIndices: always null.
GetTriangleVertexIndicesNull(p, triIndex) == <<>>

\* _getTriangleVertexIndices: null (<<>>) without _triIndices.
GetTriangleVertexIndices(p, triIndex) ==
    IF ~(p.created /\ p.hasPositions) THEN <<>>
    ELSE LET base == triIndex * 3
         IN  <<p.triIndices[base + 1], p.triIndices[base + 2], p.triIndices[base + 3]>>

\* Mutant of SharesVertex: only the first vertices are compared.
SharesVertexFirstOnly(c, l) == c[1] = l[1]

\* The nine comparisons c_i === l_j.
SharesVertex(c, l) == \E i \in 1..3 : \E j \in 1..3 : c[i] = l[j]

\* doInterpolate, given the stored UV and triangle (<<>> when absent).
DoInterpolate(p, triIndex, storedUV, storedTri) ==
    LET curr == GetTriangleVertexIndices(p, triIndex)
    IN  /\ storedUV # <<>>
        /\ storedTri # <<>>
        /\ curr # <<>>
        /\ SharesVertex(curr, storedTri)

\* Mutant of StepSize: a quarter of the radius.
StepSizeQuarter(radiusPx) == Max(1, FloorHalf(FloorHalf(radiusPx)))

\* stepSize = Math.max(1, Math.floor(brushRadiusPx * 0.5))
StepSize(radiusPx) == Max(1, FloorHalf(radiusPx))

\* a * size - b * size for rationals a and b, as a rational.
PixelDelta(a, b, size) == Frac((a[1] * b[2] - b[1] * a[2]) * size, a[2] * b[2])

\* Math.ceil(Math.hypot(dx, dy) / stepSize): the least k >= 0 with
\* (k * stepSize)^2 >= dx^2 + dy^2.
RECURSIVE CeilHypotOver(_, _, _, _)
CeilHypotOver(dx, dy, stepSize, k) ==
    IF (k * stepSize) * (k * stepSize) * (dx[2] * dx[2]) * (dy[2] * dy[2])
           >= dx[1] * dx[1] * dy[2] * dy[2] + dy[1] * dy[1] * dx[2] * dx[2]
    THEN k
    ELSE CeilHypotOver(dx, dy, stepSize, k + 1)

\* Mutant of StepCount: the distance is taken along x only.
StepCountAlongX(uv, storedUV, w, h, radiusPx) ==
    LET dxuv == PixelDelta(uv[1], storedUV[1], w)
    IN  Max(1, CeilHypotOver(dxuv, <<0, 1>>, StepSize(radiusPx), 0))

\* steps = Math.max(1, Math.ceil(distuv / stepSize))
StepCount(uv, storedUV, w, h, radiusPx) ==
    LET dxuv == PixelDelta(uv[1], storedUV[1], w)
        dyuv == PixelDelta(uv[2], storedUV[2], h)
    IN  Max(1, CeilHypotOver(dxuv, dyuv, StepSize(radiusPx), 0))

\* a * (1 - t) + b * t with t = steps === 0 ? 0 : s / steps
Lerp(a, b, s, steps) ==
    IF steps = 0 THEN a
    ELSE Frac(a[1] * b[2] * (steps - s) + b[1] * a[2] * s, a[2] * b[2] * steps)

\* One paintAtUV call.
Dab(tag, u, v, radiusPx, color) ==
    [obj |-> tag, uv |-> <<u, v>>, radiusPx |-> radiusPx, color |-> color]

\* Mutant of InterpolatedDabs: the loop stops before s = steps.
InterpolatedDabsExclusive(tag, storedUV, uv, steps, radiusPx, color) ==
    [i \in 1..steps |->
        Dab(tag, Lerp(storedUV[1], uv[1], i - 1, steps),
                 Lerp(storedUV[2], uv[2], i - 1, steps), radiusPx, color)]

\* for (let s = 0; s <= steps; s++) paintAtUV(iu, iv, ...)
InterpolatedDabs(tag, storedUV, uv, steps, radiusPx, color) ==
    [i \in 1..(steps + 1) |->
        Dab(tag, Lerp(storedUV[1], uv[1], i - 1, steps),
                 Lerp(storedUV[2], uv[2], i - 1, steps), radiusPx, color)]

\* Mutant of ObjectBranch: the MeshPaintable is looked up before the name.
ObjectBranchPaintableFirst(obj, color) ==
    IF ~obj.hasPaintable THEN "nopaintable"
    ELSE IF TryPickColorFromName(obj.hasName, obj.name, color).ok THEN "pick"
    ELSE "resolve"

\* What update does with a hit object before it casts the local ray: pick a
\* colour, give up for want of a MeshPaintable, or resolve the UV.
ObjectBranch(obj, color) ==
    IF TryPickColorFromName(obj.hasName, obj.name, color).ok THEN "pick"
    ELSE IF ~obj.hasPaintable THEN "nopaintable"
    ELSE "resolve"

\* What update does with the result of getUVFromLocalRay.
ResolveBranch(res, enabled, worldDist) ==
    IF ~res.ok THEN "nouv"
    ELSE IF ~WithinRange(enabled, worldDist) THEN "outofrange"
    ELSE "paint"

FrameOf(kind, tag, worldDist, res) ==
    [kind |-> kind, obj |-> tag, dist |-> worldDist, res |-> res,
     interpolated |-> FALSE, steps |-> 0]

\* What the maps hold for a hit object, and the brush colour.
PreOf(obj) ==
    LET objectId == ObjectKey(obj)
    IN  [flagged |-> objectId \in DOMAIN contactLost,
         lost    |-> ContactLostAt(contactLost, objectId),
         uv      |-> GetOrNull(lastUV, objectId),
         tri     |-> GetOrNull(lastTri, objectId),
         color   |-> brushColor]

NoPre ==
    [flagged |-> FALSE, lost |-> FALSE, uv |-> <<>>, tri |-> <<>>, color |-> brushColor]

InitBrush ==
    /\ brushColor = <<Frac(0, 1), Frac(0, 1), Frac(0, 1), Frac(1, 1)>>
    /\ lastUV = EmptyMap
    /\ lastTri = EmptyMap
    /\ contactLost = EmptyMap
    /\ frame = FrameOf("start", "", 0, NoResult)
    /\ pre = NoPre
    /\ dabs = <<>>
    /\ pickedCalls = <<>>

Init ==
    /\ scene \in {FixedSceneId("main"), FixedSceneId("pair")}
    /\ brushRadiusPx \in BrushRadii
    /\ paintOnProximity \in BOOLEAN
    /\ InitBrush
    /\ InitPaintable

\* update when rayCast returns no hit.
UpdateNoHit ==
    /\ pre' = NoPre
    /\ frame' = FrameOf("nohit", "", 0, NoResult)
    /\ contactLost' = MarkAllTracked(contactLost, lastUV)
    /\ dabs' = <<>>
    /\ pickedCalls' = <<>>
    /\ UNCHANGED <<auxVars, scene, brushRadiusPx, paintOnProximity, brushColor, lastUV, lastTri>>

\* update when the ray hit list holds no object at its first place.
UpdateNoObject ==
    /\ pre' = NoPre
    /\ frame' = FrameOf("noobj", "", 0, NoResult)
    /\ contactLost' = MarkAllTracked(contactLost, lastUV)
    /\ dabs' = <<>>
    /\ pickedCalls' = <<>>
    /\ UNCHANGED <<auxVars, scene, brushRadiusPx, paintOnProximity, brushColor, lastUV, lastTri>>

\* update when the name of the nearest hit object holds a hex colour.
UpdatePick(obj) ==
    /\ ObjectBranch(obj, brushColor) = "pick"
    /\ LET picked   == TryPickColorFromName(obj.hasName, obj.name, brushColor)
           objectId == ObjectKey(obj)
       IN  /\ brushColor' = picked.color
           /\ lastUV' = MapDelete(lastUV, objectId)
           /\ lastTri' = MapDelete(lastTri, objectId)
           /\ contactLost' = MapSet(contactLost, objectId, TRUE)
           /\ pickedCalls' = <<picked.hex>>
    /\ pre' = PreOf(obj)
    /\ frame' = FrameOf("pick", obj.tag, 0, NoResult)
    /\ dabs' = <<>>
    /\ UNCHANGED <<auxVars, scene, brushRadiusPx, paintOnProximity>>

\* update when the hit object has no MeshPaintable.
UpdateNoPaintable(obj) ==
    /\ ObjectBranch(obj, brushColor) = "nopaintable"
    /\ pre' = PreOf(obj)
    /\ frame' = FrameOf("nopaintable", obj.tag, 0, NoResult)
    /\ contactLost' = MarkHitObjectId(contactLost, obj)
    /\ dabs' = <<>>
    /\ pickedCalls' = <<>>
    /\ UNCHANGED <<auxVars, scene, brushRadiusPx, paintOnProximity, brushColor, lastUV, lastTri>>

\* Mutant of NoUVBranch: a frame without a UV paints at the UV origin.
NoUVBranchPaintsOrigin(obj, res) ==
    /\ frame' = FrameOf("nouv", obj.tag, 0, res)
    /\ pre' = PreOf(obj)
    /\ contactLost' = MarkHitObjectId(contactLost, obj)
    /\ dabs' = <<Dab(obj.tag, Frac(0, 1), Frac(0, 1), brushRadiusPx, brushColor)>>
    /\ pickedCalls' = <<>>
    /\ UNCHANGED <<scene, brushRadiusPx, paintOnProximity, brushColor, lastUV, lastTri>>

\* The rest of update once getUVFromLocalRay has returned null.
NoUVBranch(obj, res) ==
    /\ frame' = FrameOf("nouv", obj.tag, 0, res)
    /\ pre' = PreOf(obj)
    /\ contactLost' = MarkHitObjectId(contactLost, obj)
    /\ dabs' = <<>>
    /\ pickedCalls' = <<>>
    /\ UNCHANGED <<scene, brushRadiusPx, paintOnProximity, brushColor, lastUV, lastTri>>

\* The rest of update once the hit is resolved but is not within range.
OutOfRangeBranch(obj, res, worldDist) ==
    /\ frame' = FrameOf("outofrange", obj.tag, worldDist, res)
    /\ LET objectId == ObjectKey(obj)
       IN  /\ lastUV' = MapDelete(lastUV, objectId)
           /\ lastTri' = MapDelete(lastTri, objectId)
           /\ contactLost' = MapSet(contactLost, objectId, TRUE)
    /\ pre' = PreOf(obj)
    /\ dabs' = <<>>
    /\ pickedCalls' = <<>>
    /\ UNCHANGED <<scene, brushRadiusPx, paintOnProximity, brushColor>>

\* The rest of update once the hit is resolved and within range: the paint
\* path.
PaintBranch(obj, res, worldDist) ==
    /\ LET p         == obj.paintable
           objectId  == ObjectKey(obj)
           uvs       == ForgetIfLost(lastUV, contactLost, objectId)
           tris      == ForgetIfLost(lastTri, contactLost, objectId)
           storedUV  == GetOrNull(uvs, objectId)
           storedTri == GetOrNull(tris, objectId)
           doInterp  == DoInterpolate(p, res.triIndex, storedUV, storedTri)
           steps     == IF doInterp
                        THEN StepCount(res.uv, storedUV, p.width, p.height,
                                       brushRadiusPx)
                        ELSE 1
           currTri   == GetTriangleVertexIndices(p, res.triIndex)
       IN  /\ dabs' = IF ~doInterp
                      THEN <<Dab(obj.tag, res.uv[1], res.uv[2], brushRadiusPx,
                                 brushColor)>>
                      ELSE InterpolatedDabs(obj.tag, storedUV, res.uv, steps,
                                            brushRadiusPx, brushColor)
           /\ lastUV' = MapSet(uvs, objectId, res.uv)
           /\ lastTri' = IF currTri # <<>> THEN MapSet(tris, objectId, currTri)
                         ELSE tris
           /\ contactLost' = MapSet(contactLost, objectId, FALSE)
           /\ frame' = [FrameOf("paint", obj.tag, worldDist, res)
                            EXCEPT !.interpolated = doInterp, !.steps = steps]
    /\ pre' = PreOf(obj)
    /\ pickedCalls' = <<>>
    /\ UNCHANGED <<scene, brushRadiusPx, paintOnProximity, brushColor>>

\* update when getUVFromLocalRay returns null.
UpdateNoUV(obj) ==
    /\ ObjectBranch(obj, brushColor) = "resolve"
    /\ \E res \in UVResults(obj.paintable) :
           /\ ResolveBranch(res, paintOnProximity, 0) = "nouv"
           /\ NoUVBranch(obj, res)
    /\ UNCHANGED auxVars

\* update when the hit is resolved but is not within range.
UpdateOutOfRange(obj) ==
    /\ ObjectBranch(obj, brushColor) = "resolve"
    /\ \E res \in UVResults(obj.paintable) : \E worldDist \in WorldDists :
           /\ ResolveBranch(res, paintOnProximity, worldDist) = "outofrange"
           /\ OutOfRangeBranch(obj, res, worldDist)
    /\ UNCHANGED auxVars

\* update when the hit is resolved and within range.
UpdatePaint(obj) ==
    /\ ObjectBranch(obj, brushColor) = "resolve"
    /\ \E res \in UVResults(obj.paintable) : \E worldDist \in WorldDists :
           /\ ResolveBranch(res, paintOnProximity, worldDist) = "paint"
           /\ PaintBranch(obj, res, worldDist)
    /\ UNCHANGED auxVars

\* One call of update, on any input the scene allows.
Next ==
    \/ UpdateNoHit
    \/ UpdateNoObject
    \/ \E obj \in Objects(scene) : UpdatePick(obj)
    \/ \E obj \in Objects(scene) : UpdateNoPaintable(obj)
    \/ \E obj \in Objects(scene) : UpdateNoUV(obj)
    \/ \E obj \in Objects(scene) : UpdateOutOfRange(obj)
    \/ \E obj \in Objects(scene) : UpdatePaint(obj)

Spec == Init /\ [][Next]_allVars

\* The colour-picker specification: a scene of one paintable surface of any
\* name, the brush as configured by default.
InitPick ==
    /\ scene \in {NamedSceneId(name) : name \in Names \cup PaletteNames}
    /\ brushRadiusPx = DefaultBrushRadiusPx
    /\ paintOnProximity = TRUE
    /\ InitBrush
    /\ InitPaintable

\* One call of update with the surface as the nearest hit and its UV resolved.
NextPick ==
    \/ \E obj \in Objects(scene) : UpdatePick(obj)
    \/ \E obj \in Objects(scene) : UpdateOutOfRange(obj)
    \/ \E obj \in Objects(scene) : UpdatePaint(obj)

SpecPick == InitPick /\ [][NextPick]_allVars

(***************************************************************************)
(* Two brushes at one surface, the sign.  The engine calls update of one   *)
(* brush after the other; between two calls the model turns to the other   *)
(* brush.                                                                  *)
(***************************************************************************)
\* Mutant of OwnField: the maps are shared by all brushes.
OwnFieldShared(mine, shared) == shared

\* A private field with an initialiser: what `this` holds is the instance's
\* own value, whatever another instance's field holds.
OwnField(mine, shared) == mine

InitTwo ==
    /\ scene = FixedSceneId("sign")
    /\ brushRadiusPx \in BrushRadii
    /\ paintOnProximity = TRUE
    /\ InitBrush
    /\ InitPaintable

\* The update of the other brush is next: `this` is the other brush.
SwitchBrush ==
    /\ who' = 1 - who
    /\ brushColor' = other.brushColor
    /\ lastUV' = OwnField(other.lastUV, lastUV)
    /\ lastTri' = OwnField(other.lastTri, lastTri)
    /\ contactLost' = OwnField(other.contactLost, contactLost)
    /\ other' = [brushColor |-> brushColor, lastUV |-> lastUV, lastTri |-> lastTri,
                 contactLost |-> contactLost]
    /\ frame' = FrameOf("switch", "", 0, NoResult)
    /\ pre' = [NoPre EXCEPT !.color = other.brushColor]
    /\ dabs' = <<>>
    /\ pickedCalls' = <<>>
    /\ UNCHANGED <<scene, brushRadiusPx, paintOnProximity, cache, tmpP, query, memo, rays, canvas, chat>>

NextTwo ==
    \/ SwitchBrush
    \/ UpdateNoHit
    \/ \E obj \in Objects(scene) : UpdateNoUV(obj)
    \/ \E obj \in Objects(scene) : UpdateOutOfRange(obj)
    \/ \E obj \in Objects(scene) : UpdatePaint(obj)

SpecTwo == InitTwo /\ [][NextTwo]_allVars

(***************************************************************************)
(* The ray-query specification: one MeshPaintable on one of the surfaces,  *)
(* started once and queried, before or after, with one of the rays of the  *)
(* surface.                                                                *)
(***************************************************************************)
MeshSceneId(tag) == [kind |-> "mesh", name |-> tag]

InitRay ==
    /\ \E s \in Surfaces :
           /\ scene = MeshSceneId(s.tag)
           /\ rays \in {{r} : r \in Rays(s.tag)}
    /\ brushRadiusPx = DefaultBrushRadiusPx
    /\ paintOnProximity = TRUE
    /\ InitBrush
    /\ InitQueries

\* MeshPaintable.start
StartPaintable ==
    /\ ~cache.created
    /\ cache' = BuildMeshCaches(SurfaceOf(scene.name))
    /\ tmpP' = ScratchAfterBuild(SurfaceOf(scene.name), tmpP)
    /\ UNCHANGED <<vars, query, memo, rays, who, other, canvas, chat>>

\* One call of getUVFromLocalRay.
QueryRay(ray) ==
    LET answer == GetUVFromLocalRay(cache, SurfaceOf(scene.name).planarFallback,
                                    tmpP, ray.orig, ray.dir, ray.maxDistance)
    IN  /\ query' = QueryOf(ray, cache, tmpP, answer)
        /\ tmpP' = answer.scratch
        /\ cache' = answer.cache
        /\ UNCHANGED <<vars, memo, rays, who, other, canvas, chat>>

NextRay ==
    \/ StartPaintable
    \/ \E ray \in rays : QueryRay(ray)

SpecRay == InitRay /\ [][NextRay]_allVars

(***************************************************************************)
(* Repeated queries: a started MeshPaintable is queried with two rays in   *)
(* any order, any number of times; the first call is kept in `memo`.       *)
(***************************************************************************)
\* A short ray straight down from above the surface: its box leaves out the
\* triangles further below.
ProbeRays(tag) ==
    {r \in Rays(tag) : /\ r.maxDistance = <<1, 1>>
                       /\ r.orig[1] = -RayGrid /\ r.orig[3] = -RayGrid
                       /\ r.dir \in {<<0, -1, 0>>, <<-1, 0, 0>>}}

InitRepeat ==
    /\ \E s \in Surfaces :
           /\ scene = MeshSceneId(s.tag)
           /\ rays \in {{r1, r2} : r1 \in Rays(s.tag), r2 \in ProbeRays(s.tag)}
    /\ brushRadiusPx = DefaultBrushRadiusPx
    /\ paintOnProximity = TRUE
    /\ InitBrush
    /\ InitQueries

\* The first call of getUVFromLocalRay after start().
QueryFirst(ray) ==
    LET answer == GetUVFromLocalRay(cache, SurfaceOf(scene.name).planarFallback,
                                    tmpP, ray.orig, ray.dir, ray.maxDistance)
    IN  /\ cache.created
        /\ ~memo.asked
        /\ query' = QueryOf(ray, cache, tmpP, answer)
        /\ memo' = QueryOf(ray, cache, tmpP, answer)
        /\ tmpP' = answer.scratch
        /\ cache' = answer.cache
        /\ UNCHANGED <<vars, rays, who, other, canvas, chat>>

\* A later call.
QueryAgain(ray) ==
    /\ memo.asked
    /\ QueryRay(ray)

NextRepeat ==
    \/ StartPaintable
    \/ \E ray \in rays : QueryFirst(ray)
    \/ \E ray \in rays : QueryAgain(ray)

SpecRepeat == InitRepeat /\ [][NextRepeat]_allVars

(***************************************************************************)
(* The brush on a surface: the nearest hit of every frame is the object of *)
(* one of the surfaces, and update resolves the UV by the ray query of its *)
(* MeshPaintable, with one of the two local rays of the run.               *)
(***************************************************************************)
\* What the brush reads of the surface's MeshPaintable: _triIndices as the
\* caches hold them and the canvas size.
SurfacePaintable(mesh) ==
    [created |-> cache.created, hasPositions |-> cache.built,
     hasUVs |-> mesh.hasUVs, planarFallback |-> mesh.planarFallback,
     triIndices |-> cache.triIndices, uvSet |-> {},
     width |-> GetCanvasSize(canvas).width, height |-> GetCanvasSize(canvas).height]

\* The object that carries the surface.
SurfaceObject(tag) ==
    [tag |-> tag, hasName |-> TRUE, name |-> <<"m", "e", "s", "h">>,
     hasId |-> TRUE, objectId |-> 1, hasPaintable |-> TRUE,
     paintable |-> SurfacePaintable(SurfaceOf(tag))]

\* The local rays of the brush: localDir is normalised and maxDistance is
\* the brush's 10.
BrushRays(tag) ==
    {r \in Rays(tag) : r.maxDistance = <<10, 1>> /\ Dot(r.dir, r.dir) = 1}

\* The brush went from one ray to the other by at most one step along x.
Moved(r1, r2) ==
    /\ r1.dir = r2.dir
    /\ r1.orig[2] = r2.orig[2] /\ r1.orig[3] = r2.orig[3]
    /\ Abs(r1.orig[1] - r2.orig[1]) <= 1

\* World distances from the brush tip to the hit point on the surface: at
\* the radius and beyond it.
SurfaceDists == {BrushWorldRadius, BrushWorldRadius + DistSpread}

\* paintable.getUVFromLocalRay(localOrigin, localDir, this.maxDistance)
SurfaceQuery(ray) ==
    GetUVFromLocalRay(cache, SurfaceOf(scene.name).planarFallback, tmpP,
                      ray.orig, ray.dir, ray.maxDistance)

\* uvResult as update reads it: null, or uv and triIndex.
ResultOf(answer) ==
    [ok |-> answer.result.ok, uv |-> answer.result.uv,
     triIndex |-> answer.result.triIndex]

\* What the call leaves in the MeshPaintable.
Queried(ray, answer) ==
    /\ query' = QueryOf(ray, cache, tmpP, answer)
    /\ tmpP' = answer.scratch
    /\ cache' = answer.cache
    /\ UNCHANGED <<memo, rays, who, other, chat>>

InitSurface ==
    /\ \E s \in Surfaces :
           /\ scene = MeshSceneId(s.tag)
           /\ rays \in {{r1, r2} : r1 \in BrushRays(s.tag), r2 \in BrushRays(s.tag)}
           /\ \A r1 \in rays : \A r2 \in rays : Moved(r1, r2)
    /\ brushRadiusPx = DefaultBrushRadiusPx
    /\ paintOnProximity = TRUE
    /\ InitBrush
    /\ InitQueries

\* update on the surface when getUVFromLocalRay returns null.
SurfaceNoUV(ray) ==
    LET obj    == SurfaceObject(scene.name)
        answer == SurfaceQuery(ray)
        res    == ResultOf(answer)
    IN  /\ ObjectBranch(obj, brushColor) = "resolve"
        /\ ResolveBranch(res, paintOnProximity, 0) = "nouv"
        /\ NoUVBranch(obj, res)
        /\ Queried(ray, answer)
        /\ UNCHANGED canvas

\* update on the surface when the hit is resolved but is not within range.
SurfaceOutOfRange(ray, worldDist) ==
    LET obj    == SurfaceObject(scene.name)
        answer == SurfaceQuery(ray)
        res    == ResultOf(answer)
    IN  /\ ObjectBranch(obj, brushColor) = "resolve"
        /\ ResolveBranch(res, paintOnProximity, worldDist) = "outofrange"
        /\ OutOfRangeBranch(obj, res, worldDist)
        /\ Queried(ray, answer)
        /\ canvas' = [canvas EXCEPT !.size = GetCanvasSize(canvas)]

\* update on the surface when the hit is resolved and within range.
SurfacePaint(ray, worldDist) ==
    LET obj    == SurfaceObject(scene.name)
        answer == SurfaceQuery(ray)
        res    == ResultOf(answer)
    IN  /\ ObjectBranch(obj, brushColor) = "resolve"
        /\ ResolveBranch(res, paintOnProximity, worldDist) = "paint"
        /\ PaintBranch(obj, res, worldDist)
        /\ Queried(ray, answer)
        /\ canvas' = PaintAll([canvas EXCEPT !.size = GetCanvasSize(canvas)],
                               cache.created, dabs', 1)

NextSurface ==
    \/ StartPaintable
    \/ UpdateNoHit
    \/ \E ray \in rays : SurfaceNoUV(ray)
    \/ \E ray \in rays : \E worldDist \in SurfaceDists : SurfaceOutOfRange(ray, worldDist)
    \/ \E ray \in rays : \E worldDist \in SurfaceDists : SurfacePaint(ray, worldDist)

SpecSurface == InitSurface /\ [][NextSurface]_allVars

\* The values paintAtUV is called with: below 0, the ends, inside, above 1.
PaintInputs ==
    {Frac(i, CanvasW) : i \in (-1)..(CanvasW + 1)} \cup {Frac(1, 2), Frac(1, CanvasH), Frac(2, CanvasH)}

\* A MeshPaintable with flipY on or off and a canvas of either shape, on the
\* quad; start() has not run yet.
InitCanvas ==
    /\ scene = MeshSceneId("quad")
    /\ rays = {}
    /\ brushRadiusPx = DefaultBrushRadiusPx
    /\ paintOnProximity = TRUE
    /\ InitBrush
    /\ InitCalls
    /\ \E flipY \in BOOLEAN :
       \E size \in {<<CanvasW, CanvasH>>, <<CanvasH, CanvasW>>} :
           canvas = NewCanvas(flipY, size[1], size[2])

\* One call of paintAtUV.
PaintCall(u, v) ==
    /\ canvas' = PaintAtUV(canvas, cache.created, u, v, brushRadiusPx)
    /\ UNCHANGED <<vars, cache, tmpP, query, memo, rays, who, other, chat>>

\* One call of getCanvasSize; before start() there is no canvas to read.
CanvasSizeCall ==
    /\ cache.created
    /\ canvas' = [canvas EXCEPT !.size = GetCanvasSize(canvas)]
    /\ UNCHANGED <<vars, cache, tmpP, query, memo, rays, who, other, chat>>

NextCanvas ==
    \/ StartPaintable
    \/ \E u \in PaintInputs : \E v \in PaintInputs : PaintCall(u, v)
    \/ CanvasSizeCall

SpecCanvas == InitCanvas /\ [][NextCanvas]_allVars

(***************************************************************************)
(* CanvasAIChat: sends, replies and camera captures.                       *)
(***************************************************************************)
\* The index of the last entry with role 'assistant', 0 when there is none.
RECURSIVE LastAssistant(_, _)
LastAssistant(conv, i) ==
    IF i = 0 THEN 0
    ELSE IF conv[i].role = "assistant" THEN i
    ELSE LastAssistant(conv, i - 1)

\* _replaceLastAssistant(text)
ReplaceLastAssistant(conv, kind, of) ==
    LET i == LastAssistant(conv, Len(conv))
    IN  IF i = 0 THEN Append(conv, Entry("assistant", kind, of, 0))
        ELSE [conv EXCEPT ![i].text = <<kind, of>>]

\* What the input holds when send is clicked.
Drafts == {"", "hello", "KEY: k", "KEY:"}

IsKeyCommand(draft) == draft \in {"KEY: k", "KEY:"}

\* _onSendClicked with the draft typed, up to the await in postSend.
SendClicked(draft) ==
    /\ chat.sends < MaxSends
    /\ LET id     == chat.requests + 1
           pushed == chat.conversation
                         \o <<Entry("user", draft, id, 0),
                              Entry("assistant", "thinking", id, id)>>
       IN  chat' =
               IF draft = "" /\ ~chat.popupImage THEN chat
               ELSE IF IsKeyCommand(draft)
               THEN [chat EXCEPT !.apiKey = (draft = "KEY: k"),
                                 !.conversation = Append(@, Entry("assistant", "key saved", 0, 0)),
                                 !.sends = @ + 1]
               ELSE IF ~chat.apiKey
               THEN [chat EXCEPT !.conversation = ReplaceLastAssistant(pushed, "no key", id),
                                 !.popupImage = FALSE,
                                 !.requests = id,
                                 !.sends = @ + 1]
               ELSE [chat EXCEPT !.conversation = pushed,
                                 !.popupImage = FALSE,
                                 !.pending = @ \cup {id},
                                 !.requests = id,
                                 !.sends = @ + 1]
    /\ UNCHANGED <<vars, cache, tmpP, query, memo, rays, who, other, canvas>>

\* postSend after the await: _callGemini resolved, or threw.
ReplyArrives(r, kind) ==
    /\ r \in chat.pending
    /\ chat' = [chat EXCEPT !.conversation = ReplaceLastAssistant(@, kind, r),
                            !.pending = @ \ {r}]
    /\ UNCHANGED <<vars, cache, tmpP, query, memo, rays, who, other, canvas>>

\* _captureOnce up to its first await.
CaptureClicked ==
    /\ chat.captures < MaxCaptures
    /\ chat' = [chat EXCEPT !.capturing = @ + 1, !.captures = @ + 1]
    /\ UNCHANGED <<vars, cache, tmpP, query, memo, rays, who, other, canvas>>

\* _captureOnce after its awaits: the image is taken.
CaptureDone ==
    /\ chat.capturing > 0
    /\ chat' = [chat EXCEPT !.capturing = @ - 1, !.popupImage = TRUE]
    /\ UNCHANGED <<vars, cache, tmpP, query, memo, rays, who, other, canvas>>

\* _captureOnce when getUserMedia rejects: the catch block.
CaptureFails ==
    /\ chat.capturing > 0
    /\ chat' = [chat EXCEPT !.capturing = @ - 1,
                            !.conversation = Append(@, Entry("assistant", "camera error", 0, 0))]
    /\ UNCHANGED <<vars, cache, tmpP, query, memo, rays, who, other, canvas>>

\* A click on the clear icon.
ClearClicked ==
    /\ chat' = [chat EXCEPT !.conversation = <<>>, !.popupImage = FALSE]
    /\ UNCHANGED <<vars, cache, tmpP, query, memo, rays, who, other, canvas>>

\* The chat after start(), its apiKey property set in the editor or left
\* empty.
InitChat ==
    /\ scene = FixedSceneId("main")
    /\ brushRadiusPx = DefaultBrushRadiusPx
    /\ paintOnProximity = TRUE
    /\ rays = {}
    /\ InitBrush
    /\ who = 0
    /\ other = NewBrush
    /\ cache = NoCache
    /\ tmpP = ZeroScratch
    /\ query = NoQuery
    /\ memo = NoQuery
    /\ canvas = NewCanvas(TRUE, CanvasW, CanvasH)
    /\ \E key \in BOOLEAN : chat = [NewChat EXCEPT !.apiKey = key]

NextChat ==
    \/ \E draft \in Drafts : SendClicked(draft)
    \/ \E r \in chat.pending : \E kind \in {"reply", "error"} : ReplyArrives(r, kind)
    \/ CaptureClicked
    \/ CaptureDone
    \/ CaptureFails
    \/ ClearClicked

SpecChat == InitChat /\ [][NextChat]_allVars

(***************************************************************************)
(* Properties.  They read the last update through `frame` (its inputs),    *)
(* `pre` (what the hit object's key held before it), `dabs` and            *)
(* `pickedCalls` (what it did) and the maps (what it left).                *)
(***************************************************************************)
\* The object the last update hit (when frame.obj is not "").
HitObject == CHOOSE o \in Objects(scene) : o.tag = frame.obj

HitKey == ObjectKey(HitObject)

\* The last update hit a paintable surface, resolved its UV and found it
\* within BrushWorldRadius with proximity painting on.
InRangeHit ==
    /\ frame.res.ok
    /\ paintOnProximity
    /\ frame.dist <= BrushWorldRadius

\* The vertex indices of the triangle the last update hit.
HitTriangle ==
    LET t == HitObject.paintable.triIndices
        b == 3 * frame.res.triIndex
    IN  <<t[b + 1], t[b + 2], t[b + 3]>>

\* Two triangles have a vertex index in common.
CommonVertex(a, b) == {a[1], a[2], a[3]} \cap {b[1], b[2], b[3]} # {}

\* The maps hold the current hit as the last one, with the flag clear.
StoredCurrentHit ==
    /\ HitKey \in DOMAIN lastUV /\ lastUV[HitKey] = frame.res.uv
    /\ HitKey \in DOMAIN lastTri /\ lastTri[HitKey] = HitTriangle
    /\ HitKey \in DOMAIN contactLost /\ contactLost[HitKey] = FALSE

\* C1: an in-range hit on a surface whose contact-lost flag is set forgets
\* the stored UV and triangle, clears the flag and paints exactly one dab,
\* at the current UV.
C1_LostContactStartsFreshStroke ==
    (InRangeHit /\ pre.lost) =>
        /\ Len(dabs) = 1
        /\ dabs[1].uv = frame.res.uv
        /\ dabs[1].obj = frame.obj
        /\ StoredCurrentHit

\* C1 witness: the flag was set over a stored UV on an adjacent triangle,
\* away from the current UV, and the update painted.
C1_Witness ==
    /\ InRangeHit /\ pre.lost
    /\ pre.uv # <<>> /\ pre.uv # frame.res.uv
    /\ pre.tri # <<>> /\ CommonVertex(pre.tri, HitTriangle)
    /\ Len(dabs) = 1

\* C3: an in-range hit with the flag clear and a stored UV and triangle
\* interpolates (paints from the stored UV on) exactly when the current
\* triangle shares a vertex index with the stored one, and otherwise paints
\* one dab at the current UV; either way the current hit is stored and the
\* flag is clear.
C3_InterpolatesIffAdjacent ==
    (InRangeHit /\ ~pre.lost /\ pre.uv # <<>> /\ pre.tri # <<>>) =>
        /\ CommonVertex(HitTriangle, pre.tri) =>
               /\ Len(dabs) >= 2
               /\ dabs[1].uv = pre.uv
               /\ dabs[Len(dabs)].uv = frame.res.uv
        /\ ~CommonVertex(HitTriangle, pre.tri) =>
               /\ Len(dabs) = 1
               /\ dabs[1].uv = frame.res.uv
        /\ (pre.tri = <<0, 1, 2>> /\ HitTriangle = <<2, 5, 6>>) => Len(dabs) >= 2
        /\ (pre.tri = <<0, 1, 2>> /\ HitTriangle = <<7, 8, 9>>) => Len(dabs) = 1
        /\ StoredCurrentHit

\* C3 witness: from triangle [0,1,2] to [2,5,6], interpolated.
C3_Witness ==
    /\ InRangeHit /\ ~pre.lost
    /\ pre.tri = <<0, 1, 2>> /\ HitTriangle = <<2, 5, 6>>
    /\ pre.uv # frame.res.uv
    /\ Len(dabs) >= 2

\* The other case of C3: from [0,1,2] to [7,8,9], one dab.
C3_WitnessApart ==
    /\ InRangeHit /\ ~pre.lost
    /\ pre.tri = <<0, 1, 2>> /\ HitTriangle = <<7, 8, 9>>
    /\ Len(dabs) = 1

\* C2 as the spec states it: a frame with no ray hit, with a hit target
\* without MeshPaintable, or with a failed UV resolution leaves the
\* contact-lost flag of every tracked identity set.
C2_Original ==
    frame.kind \in {"nohit", "nopaintable", "nouv"} =>
        \A k \in DOMAIN lastUV : ContactLostAt(contactLost, k)

\* The flags of all keys but those in `except` are as they were.
FlagsUnchangedBut(except) ==
    /\ DOMAIN contactLost' \ except = DOMAIN contactLost \ except
    /\ \A k \in DOMAIN contactLost \ except : contactLost'[k] = contactLost[k]

\* C2, amended: a frame with no ray hit (or no hit object) sets the flag of
\* every identity that has a stored last UV; a frame whose hit target has no
\* MeshPaintable, or whose UV resolution fails, sets the flag of the hit
\* object's own objectId (of nothing when it has none) and leaves the flag
\* of every other identity as it was.
C2_Amended ==
    [][/\ frame'.kind \in {"nohit", "noobj"} =>
              \A k \in DOMAIN lastUV' : ContactLostAt(contactLost', k)
       /\ frame'.kind \in {"nopaintable", "nouv"} =>
              LET o == CHOOSE x \in Objects(scene) : x.tag = frame'.obj
              IN  IF o.hasId
                  THEN /\ ContactLostAt(contactLost', o.objectId)
                       /\ FlagsUnchangedBut({o.objectId})
                  ELSE FlagsUnchangedBut({})]_vars

\* C2 witness: after a frame on an object without MeshPaintable, a tracked
\* identity still has its flag clear.
C2_Witness ==
    /\ frame.kind = "nopaintable"
    /\ HitObject.hasId
    /\ ContactLostAt(contactLost, HitObject.objectId)
    /\ \E k \in DOMAIN lastUV : ~ContactLostAt(contactLost, k)

\* The square of the pixel distance between two UVs on a w x h canvas, as a
\* pair <<numerator, denominator>>.
PixelDistSquared(a, b, w, h) ==
    LET du == <<b[1][1] * a[1][2] - a[1][1] * b[1][2], a[1][2] * b[1][2]>>
        dv == <<b[2][1] * a[2][2] - a[2][1] * b[2][2], a[2][2] * b[2][2]>>
    IN  <<du[1] * du[1] * w * w * dv[2] * dv[2] + dv[1] * dv[1] * h * h * du[2] * du[2],
          du[2] * du[2] * dv[2] * dv[2]>>

\* n = max(1, ceil(sqrt(d2) / stepSize))
IsStepCount(n, d2, stepSize) ==
    /\ n >= 1
    /\ n * n * stepSize * stepSize * d2[2] >= d2[1]
    /\ n > 1 => (n - 1) * (n - 1) * stepSize * stepSize * d2[2] < d2[1]

\* The rational x equals a * (1 - s/n) + b * (s/n).
IsLerp(x, a, b, s, n) ==
    x[1] * (a[2] * b[2] * n) = x[2] * (a[1] * b[2] * (n - s) + b[1] * a[2] * s)

\* C4: an interpolating update paints steps + 1 dabs, with
\* stepSize = max(1, floor(brushRadiusPx * 0.5)) and
\* steps = max(1, ceil(distance / stepSize)), at the UVs
\* prev * (1 - s/steps) + curr * (s/steps) for s = 0..steps: the first at
\* the previous UV, the last at the current one, and two dabs at the same
\* place when the UV did not move.
C4_InterpolatedDabs ==
    (InRangeHit /\ ~pre.lost /\ pre.uv # <<>> /\ pre.tri # <<>>
        /\ CommonVertex(HitTriangle, pre.tri)) =>
        LET p        == HitObject.paintable
            half     == brushRadiusPx \div 2
            stepSize == IF half >= 1 THEN half ELSE 1
            steps    == Len(dabs) - 1
            d2       == PixelDistSquared(pre.uv, frame.res.uv, p.width, p.height)
        IN  /\ IsStepCount(steps, d2, stepSize)
            /\ \A s \in 0..steps :
                   /\ IsLerp(dabs[s + 1].uv[1], pre.uv[1], frame.res.uv[1], s, steps)
                   /\ IsLerp(dabs[s + 1].uv[2], pre.uv[2], frame.res.uv[2], s, steps)
            /\ dabs[1].uv = pre.uv
            /\ dabs[steps + 1].uv = frame.res.uv
            /\ pre.uv = frame.res.uv => Len(dabs) = 2

\* C4 witness: an interpolation of at least three steps.
C4_Witness ==
    /\ InRangeHit /\ ~pre.lost /\ pre.uv # <<>> /\ pre.tri # <<>>
    /\ CommonVertex(HitTriangle, pre.tri)
    /\ Len(dabs) >= 4
    /\ dabs[2].uv # pre.uv /\ dabs[2].uv # frame.res.uv

\* The other case of C4: the UV did not move, two dabs at the same place.
C4_WitnessStill ==
    /\ InRangeHit /\ ~pre.lost /\ pre.uv = frame.res.uv
    /\ Len(dabs) = 2 /\ dabs[1].uv = dabs[2].uv

\* The hit object's key holds no stroke and its flag is set.
StrokeEnded ==
    /\ HitKey \notin DOMAIN lastUV
    /\ HitKey \notin DOMAIN lastTri
    /\ HitKey \in DOMAIN contactLost /\ contactLost[HitKey] = TRUE

\* C5: a resolved hit on a paintable surface farther from the brush tip
\* than brushWorldRadius paints no dab, deletes the stored UV and triangle
\* of that identity and sets its flag.
C5_OutOfRangeEndsStroke ==
    (frame.res.ok /\ frame.dist > BrushWorldRadius) =>
        /\ dabs = <<>>
        /\ StrokeEnded

\* C5 witness: a stroke was in progress when the hit went out of range.
C5_Witness ==
    /\ frame.res.ok /\ frame.dist > BrushWorldRadius
    /\ paintOnProximity
    /\ pre.uv # <<>> /\ ~pre.lost
    /\ dabs = <<>>

\* C6: with paintOnProximity off no update paints: every resolved hit is
\* out of range, whatever its distance.
C6_NoPaintWhenProximityOff ==
    ~paintOnProximity =>
        /\ dabs = <<>>
        /\ lastUV = EmptyMap
        /\ frame.res.ok => StrokeEnded

\* C6 witness: a resolved hit within brushWorldRadius, proximity off.
C6_Witness ==
    /\ ~paintOnProximity
    /\ frame.res.ok /\ frame.dist <= BrushWorldRadius
    /\ dabs = <<>>

\* C7: with proximity painting on, a resolved hit at exactly
\* brushWorldRadius paints, and one at a larger distance does not.
C7_ProximityInclusive ==
    (paintOnProximity /\ frame.res.ok) =>
        /\ frame.dist = BrushWorldRadius => (Len(dabs) >= 1 /\ StoredCurrentHit)
        /\ frame.dist > BrushWorldRadius => dabs = <<>>

\* C7 witness: a hit at exactly brushWorldRadius that painted.
C7_Witness ==
    /\ paintOnProximity /\ frame.res.ok
    /\ frame.dist = BrushWorldRadius
    /\ Len(dabs) >= 1

\* A name holds '#' followed by at least three hex digits.
HexDigitsAfter(name, i) ==
    IF i + 3 <= Len(name)
           /\ \A k \in 1..3 : name[i + k] \in HexLower \cup HexUpper
    THEN IF i + 6 <= Len(name)
                /\ \A k \in 4..6 : name[i + k] \in HexLower \cup HexUpper
         THEN 6 ELSE 3
    ELSE 0

TokenStarts(name) ==
    {i \in 1..Len(name) : name[i] = "#" /\ HexDigitsAfter(name, i) > 0}

FirstTokenStart(name) == CHOOSE i \in TokenStarts(name) : \A j \in TokenStarts(name) : i <= j

\* C8: a frame whose nearest hit has a hex colour in its name deletes that
\* identity's stored UV and triangle, sets its flag, calls onPickedColor
\* once, with the picked hex, and paints nothing.
C8_PickShortCircuits ==
    (frame.obj # "" /\ TokenStarts(HitObject.name) # {}) =>
        /\ StrokeEnded
        /\ Len(pickedCalls) = 1
        /\ pickedCalls[1][1] = "#"
        /\ frame.obj = "swatch6" => pickedCalls = << <<"#", "1", "a", "2", "b", "3", "c">> >>
        /\ dabs = <<>>

\* C8 witness: a colour was picked from the swatch that is not paintable.
C8_Witness ==
    /\ frame.obj = "swatch3"
    /\ Len(pickedCalls) = 1
    /\ StrokeEnded

\* The other case of C8: a colour was picked from the paintable swatch
\* while a stroke was stored for another surface.
C8_WitnessPaintable ==
    /\ frame.obj = "swatch6"
    /\ Len(pickedCalls) = 1
    /\ lastUV # EmptyMap

\* The value of a byte written as two hex digits, over 255.
ByteOver255(hi, lo) == Frac(16 * HexVal(hi) + HexVal(lo), 255)

\* C9 as the spec states it: for a name whose first hex token has three
\* digits, the picker returns the token expanded to six digits by doubling
\* each digit, in lower case, and the brush colour is that of the expanded
\* value.
C9_ThreeDigitExpanded ==
    (frame.obj # "" /\ TokenStarts(HitObject.name) # {}
        /\ HexDigitsAfter(HitObject.name, FirstTokenStart(HitObject.name)) = 3) =>
        LET name == HitObject.name
            i    == FirstTokenStart(name)
            d1   == LowerChar(name[i + 1])
            d2   == LowerChar(name[i + 2])
            d3   == LowerChar(name[i + 3])
        IN  /\ pickedCalls = << <<"#", d1, d1, d2, d2, d3, d3>> >>
            /\ brushColor = <<ByteOver255(d1, d1), ByteOver255(d2, d2),
                              ByteOver255(d3, d3), Frac(1, 1)>>

\* What holds of a three-digit token instead: the brush colour is that of
\* the expanded value, and the string handed on is the token as matched,
\* lower-cased, of three digits.
C9_ThreeDigitAsMatched ==
    (frame.obj # "" /\ TokenStarts(HitObject.name) # {}
        /\ HexDigitsAfter(HitObject.name, FirstTokenStart(HitObject.name)) = 3) =>
        LET name == HitObject.name
            i    == FirstTokenStart(name)
            d1   == LowerChar(name[i + 1])
            d2   == LowerChar(name[i + 2])
            d3   == LowerChar(name[i + 3])
        IN  /\ pickedCalls = << <<"#", d1, d2, d3>> >>
            /\ brushColor = <<ByteOver255(d1, d1), ByteOver255(d2, d2),
                              ByteOver255(d3, d3), Frac(1, 1)>>

\* C10: for a name whose first '#' token has six hex digits the picker
\* returns the token in lower case and the brush colour becomes
\* (r/255, g/255, b/255, 1) of its byte pairs; for a name with no '#'
\* followed by three hex digits it returns nothing, the brush colour stays
\* and the frame goes on to the paint logic.
C10_SixDigitPickOrNoMatch ==
    frame.obj # "" =>
        LET name   == HitObject.name
            starts == TokenStarts(name)
        IN  /\ (starts # {} /\ HexDigitsAfter(name, FirstTokenStart(name)) = 6) =>
                   LET i == FirstTokenStart(name)
                   IN  /\ pickedCalls =
                              << [k \in 1..7 |-> LowerChar(name[i + k - 1])] >>
                       /\ brushColor = <<ByteOver255(name[i + 1], name[i + 2]),
                                         ByteOver255(name[i + 3], name[i + 4]),
                                         ByteOver255(name[i + 5], name[i + 6]),
                                         Frac(1, 1)>>
            /\ starts = {} =>
                   /\ pickedCalls = <<>>
                   /\ brushColor = pre.color
                   /\ frame.res.ok
                   /\ InRangeHit => (Len(dabs) >= 1 /\ StoredCurrentHit)
                   /\ ~InRangeHit => StrokeEnded
            /\ name = Swatch6.name =>
                   /\ pickedCalls = << <<"#", "1", "a", "2", "b", "3", "c">> >>
                   /\ brushColor = <<Frac(26, 255), Frac(43, 255), Frac(60, 255),
                                     Frac(1, 1)>>

\* C10 witness: the colour of Palette_#1a2b3c_swatch was picked.
C10_Witness ==
    /\ frame.obj # ""
    /\ HitObject.name = Swatch6.name
    /\ Len(pickedCalls) = 1
    /\ brushColor[1] = Frac(26, 255)

\* The other cases of C10: an upper-case six-digit token, and a painted
\* surface whose name holds a '#' but no token.
C10_WitnessUpper ==
    /\ frame.obj # ""
    /\ HitObject.name = <<"#", "F", "F", "F", "F", "F", "F">>
    /\ pickedCalls = << <<"#", "f", "f", "f", "f", "f", "f">> >>

C10_WitnessNoMatch ==
    /\ frame.obj # ""
    /\ HitObject.name = <<"#", "F", "F", "g", "F">>
    /\ Len(dabs) >= 1


(***************************************************************************)
(* Properties of the ray query.  They read the last call through `query`.  *)
(***************************************************************************)
\* The surface of the run.
TheSurface == SurfaceOf(scene.name)

\* The exact intersection of the last call's ray with triangle j of the
\* mesh, computed from the mesh itself.
HitOf(j) ==
    LET m == TheSurface
        i == IF Len(m.indices) > 0 THEN m.indices ELSE IotaIndices(Len(m.positions))
    IN  RayTriangleIntersect(query.orig, query.dir, m.positions[i[3 * j + 1] + 1],
                             m.positions[i[3 * j + 2] + 1],
                             m.positions[i[3 * j + 3] + 1], m.scale)

TriangleCount ==
    IF Len(TheSurface.indices) > 0 THEN Len(TheSurface.indices) \div 3
    ELSE Len(TheSurface.positions) \div 3

\* The triangles the ray has a valid intersection with: inside the
\* triangle, at 1e-6 < t <= maxDistance.
ValidTriangles ==
    {j \in 0..(TriangleCount - 1) :
        /\ HitOf(j).ok
        /\ AboveOneOver(HitOf(j).t, InvMinT)
        /\ RLe(HitOf(j).t, query.maxDistance)}

\* The call was made on built caches.
QueriedBuilt == query.asked /\ query.built

C11_WitnessNone ==
    /\ QueriedBuilt
    /\ ValidTriangles = {}
    /\ ~query.result.ok
    /\ query.maxDistance = Infinity


\* The vertices of triangle j of the mesh, in whole units.
VertexOf(j, n) ==
    LET m == TheSurface
        i == IF Len(m.indices) > 0 THEN m.indices ELSE IotaIndices(Len(m.positions))
    IN  [k \in 1..3 |-> Frac(m.positions[i[3 * j + n] + 1][k], m.scale)]

\* (1 - u - v) * p0 + u * p1 + v * p2 on triangle j.
PointAt(j, u, v) ==
    [k \in 1..3 |->
        RAdd(RAdd(RMul(RSub(RSub(<<1, 1>>, u), v), VertexOf(j, 1)[k]),
                  RMul(u, VertexOf(j, 2)[k])),
             RMul(v, VertexOf(j, 3)[k]))]

\* origin + t * direction of the last call's ray, in whole units.
RayPointAt(t) ==
    [k \in 1..3 |-> RAdd(Frac(query.orig[k], TheSurface.scale),
                         RMul(<<query.dir[k], 1>>, t))]

\* The absolute value of the determinant edge1 . (dir x edge2) of
\* triangle j, as a rational.
AbsDet(j) ==
    LET m  == TheSurface
        i  == IF Len(m.indices) > 0 THEN m.indices ELSE IotaIndices(Len(m.positions))
        p0 == m.positions[i[3 * j + 1] + 1]
        p1 == m.positions[i[3 * j + 2] + 1]
        p2 == m.positions[i[3 * j + 3] + 1]
    IN  Frac(Abs(Dot(VSub(p1, p0), Cross(query.dir, VSub(p2, p0)))), m.scale * m.scale)

\* n/d >= 1/m for a rational <<n, d>> and a whole m > 0.
AtLeastOneOver(a, m) == a[1] > 0 /\ (a[2] + a[1] - 1) \div a[1] <= m

\* C12: the hit a query settles on has 0 <= u <= 1, 0 <= v, u + v <= 1,
\* 1e-6 < t <= maxDistance, lies at origin + t * direction, which is the
\* point of its triangle with the barycentric weights (1 - u - v, u, v),
\* and the determinant of its triangle is at least 1e-8 in absolute value.
C12_ReturnedHitIsValid ==
    (QueriedBuilt /\ query.best.tri # -1) =>
        LET b == query.best
        IN  /\ RLe(<<0, 1>>, b.u) /\ RLe(b.u, <<1, 1>>)
            /\ RLe(<<0, 1>>, b.v)
            /\ RLe(RAdd(b.u, b.v), <<1, 1>>)
            /\ RLt(<<1, InvMinT>>, b.t)
            /\ RLe(b.t, query.maxDistance)
            /\ RayPointAt(b.t) = PointAt(b.tri, b.u, b.v)
            /\ query.result.ok => query.result.localHit = RayPointAt(b.t)
            /\ AtLeastOneOver(AbsDet(b.tri), InvEps)

\* C12 witness: a hit on the edge u + v = 1, at t = maxDistance exactly.
C12_Witness ==
    /\ QueriedBuilt /\ query.result.ok
    /\ RAdd(query.best.u, query.best.v) = <<1, 1>>
    /\ query.best.t = query.maxDistance

\* C12, the small cases: a triangle of determinant 1e-8 is returned; one of
\* 2.5e-9 that the ray passes through is not, nor is one met at t = 5e-7.
C12_WitnessSpeck ==
    /\ QueriedBuilt /\ query.result.ok
    /\ AbsDet(0) = <<1, InvEps>>

C12_WitnessNearParallel ==
    /\ QueriedBuilt /\ ~query.result.ok
    /\ scene.name = "speck"
    /\ query.orig = <<0, 4, 0>> /\ query.dir = <<0, -1, 0>>

C12_WitnessTooClose ==
    /\ QueriedBuilt /\ ~query.result.ok
    /\ scene.name = "speck"
    /\ query.orig = <<0, 1, 0>> /\ query.dir = <<0, -100, 0>>

\* A UV pair in [0, 1] x [0, 1].
InUnitSquare(uv) ==
    \A k \in 1..2 : IsFinite(uv[k]) /\ RLe(<<0, 1>>, uv[k]) /\ RLe(uv[k], <<1, 1>>)

\* The vertex UVs of triangle j of the mesh weighted by (1 - u - v, u, v),
\* before any clamping.
UVAt(j, u, v) ==
    LET m == TheSurface
        i == IF Len(m.indices) > 0 THEN m.indices ELSE IotaIndices(Len(m.positions))
    IN  [k \in 1..2 |->
            RAdd(RAdd(RMul(RSub(RSub(<<1, 1>>, u), v), m.uvs[i[3 * j + 1] + 1][k]),
                      RMul(u, m.uvs[i[3 * j + 2] + 1][k])),
                 RMul(v, m.uvs[i[3 * j + 3] + 1][k]))]

\* C13: every UV that getUVFromLocalRay returns lies in [0, 1] x [0, 1],
\* whether interpolated from vertex UVs or taken from the planar fallback,
\* and so does every UV in the brush's _lastUVPerObject.
C13_UVInUnitSquare ==
    /\ query.result.ok => InUnitSquare(query.result.uv)
    /\ \A k \in DOMAIN lastUV : InUnitSquare(lastUV[k])

\* C13 witness: the vertex UVs of the hit triangle weigh to a point outside
\* the unit square, the query returns its clamped value and the brush has
\* stored it.
C13_Witness ==
    /\ QueriedBuilt /\ query.result.ok
    /\ TheSurface.hasUVs
    /\ ~InUnitSquare(UVAt(query.best.tri, query.best.u, query.best.v))
    /\ frame.kind = "paint"
    /\ lastUV[1] = query.result.uv

\* C13, the planar path: a UV of the fallback is returned and stored.
C13_WitnessPlanar ==
    /\ QueriedBuilt /\ query.result.ok
    /\ ~TheSurface.hasUVs
    /\ frame.kind = "paint"
    /\ lastUV[1] = query.result.uv
    /\ query.result.uv # <<<<0, 1>>, <<0, 1>>>>

\* Coordinate k of the mesh's vertices, in whole units, and the least and
\* the greatest of them.
CoordsOf(k) ==
    {Frac(TheSurface.positions[i][k], TheSurface.scale) :
        i \in 1..Len(TheSurface.positions)}

LeastOf(k) == CHOOSE lo \in CoordsOf(k) : \A c \in CoordsOf(k) : RLe(lo, c)

GreatestOf(k) == CHOOSE hi \in CoordsOf(k) : \A c \in CoordsOf(k) : RLe(c, hi)

\* (x - min) / (max - min) over the mesh's extent in coordinate k, with 1
\* for the denominator when the extent is zero, brought into [0, 1].
PlanarExpected(x, k) ==
    LET denom == IF GreatestOf(k) = LeastOf(k) THEN <<1, 1>>
                 ELSE RSub(GreatestOf(k), LeastOf(k))
        raw   == RDiv(RSub(x, LeastOf(k)), denom)
    IN  IF RLt(raw, <<0, 1>>) THEN <<0, 1>>
        ELSE IF RLt(<<1, 1>>, raw) THEN <<1, 1>>
        ELSE raw

\* The query ran on a mesh without UVs whose planar fallback is enabled and
\* settled on a triangle.
PlanarHit ==
    /\ QueriedBuilt
    /\ ~TheSurface.hasUVs /\ TheSurface.planarFallback
    /\ query.best.tri # -1

\* C14: on a mesh without UVs and with the planar fallback enabled, a hit
\* at local (x, _, z) resolves to u = (x - minX) / (maxX - minX) and
\* v = (z - minZ) / (maxZ - minZ) over the mesh's vertex extents, each
\* clamped to [0, 1], a zero extent giving the denominator 1; on the mesh
\* spanning X and Z in [-1, 1] the corner (-1, -1) resolves to (0, 0) and
\* the corner (1, 1) to (1, 1).
C14_PlanarFallback ==
    PlanarHit =>
        LET hit == RayPointAt(query.best.t)
        IN  /\ query.result.ok
            /\ query.result.uv = <<PlanarExpected(hit[1], 1), PlanarExpected(hit[3], 3)>>
            /\ (scene.name = "floor" /\ hit[1] = <<-1, 1>> /\ hit[3] = <<-1, 1>>)
                   => query.result.uv = <<<<0, 1>>, <<0, 1>>>>
            /\ (scene.name = "floor" /\ hit[1] = <<1, 1>> /\ hit[3] = <<1, 1>>)
                   => query.result.uv = <<<<1, 1>>, <<1, 1>>>>

\* C14 witness: the corner (-1, -1) of the mesh spanning [-1, 1] is hit.
C14_Witness ==
    /\ PlanarHit
    /\ scene.name = "floor"
    /\ RayPointAt(query.best.t) = <<<<-1, 1>>, <<0, 1>>, <<-1, 1>>>>
    /\ query.result.uv = <<<<0, 1>>, <<0, 1>>>>

\* C14, the other corner, and a mesh of zero extent in X.
C14_WitnessFarCorner ==
    /\ PlanarHit
    /\ scene.name = "floor"
    /\ RayPointAt(query.best.t) = <<<<1, 1>>, <<0, 1>>, <<1, 1>>>>
    /\ query.result.uv = <<<<1, 1>>, <<1, 1>>>>

C14_WitnessZeroExtent ==
    /\ PlanarHit
    /\ GreatestOf(1) = LeastOf(1)
    /\ query.result.uv = <<<<0, 1>>, <<1, 2>>>>

\* C15: on a mesh without UVs whose planar fallback is disabled every query
\* returns none, whether or not the ray hits a triangle, and no update of
\* the brush paints a dab on the surface or stores a UV for it.
C15_NoUVsNoFallback ==
    (~TheSurface.hasUVs /\ ~TheSurface.planarFallback) =>
        /\ ~query.result.ok
        /\ dabs = <<>>
        /\ frame.kind \in {"start", "nohit", "nouv"}
        /\ lastUV = EmptyMap /\ lastTri = EmptyMap

\* C15 witness: the ray of the frame hits a triangle of such a mesh within
\* reach, the query returns none and the frame ends without a dab.
C15_Witness ==
    /\ ~TheSurface.hasUVs /\ ~TheSurface.planarFallback
    /\ QueriedBuilt
    /\ ValidTriangles # {} /\ query.best.tri \in ValidTriangles
    /\ ~query.result.ok
    /\ frame.kind = "nouv" /\ frame.obj = scene.name
    /\ dabs = <<>>

\* start() has run on a mesh without the Position attribute.
StartedWithoutPositions == cache.created /\ ~TheSurface.hasPositions

\* C16: once the caches were built from a mesh without the Position
\* attribute they stay as constructed for good, and every query made from
\* then on returns none, for every ray, before it looks at a triangle or
\* touches the scratch vectors.
C16_NoPositionsNeverResolves ==
    /\ [](StartedWithoutPositions =>
              /\ cache = [NoCache EXCEPT !.created = TRUE]
              /\ tmpP = ZeroScratch
              /\ query.asked => (~query.result.ok /\ query.best = NoBest))
    /\ [][StartedWithoutPositions => cache' = cache]_allVars

\* C16 witness: a query made after start() on such a mesh returned none.
C16_Witness ==
    /\ StartedWithoutPositions
    /\ query.asked /\ query.created
    /\ ~query.result.ok

\* The last call was made on the built unit quad with the given ray.
QuadQueried(orig, dir) ==
    /\ QueriedBuilt
    /\ scene.name = "quad"
    /\ query.orig = orig /\ query.dir = dir

\* The call resolved the centre of the quad: local (0, 0, 0), UV (1/2, 1/2).
ResolvedCentre ==
    /\ query.result.ok
    /\ query.result.localHit = <<<<0, 1>>, <<0, 1>>, <<0, 1>>>>
    /\ query.result.uv = <<<<1, 2>>, <<1, 2>>>>

\* C17 as stated: the ray from (0, 0, 1) in direction (0, 0, -1) resolves
\* the centre of the unit quad spanning X and Z.  (The quad's units are
\* halves: (0, 0, 1) is <<0, 0, 2>>.)
C17_Original == QuadQueried(<<0, 0, 2>>, <<0, 0, -1>>) => ResolvedCentre

\* C17 amended: the unit quad spanning X and Z lies in the plane y = 0; the
\* ray from (0, 1, 0) in direction (0, -1, 0) meets it at (0, 0, 0) and
\* resolves UV (1/2, 1/2), while the ray from (0, 0, 1) in direction
\* (0, 0, -1) runs within that plane and resolves nothing.
C17_Amended ==
    /\ QuadQueried(<<0, 2, 0>>, <<0, -1, 0>>) => ResolvedCentre
    /\ QuadQueried(<<0, 0, 2>>, <<0, 0, -1>>) =>
           (~query.result.ok /\ ValidTriangles = {} /\ AbsDet(0) = <<0, 1>>
            /\ AbsDet(1) = <<0, 1>>)

\* C17 witness: the ray from above has been cast and resolved the centre.
C17_Witness ==
    /\ QuadQueried(<<0, 2, 0>>, <<0, -1, 0>>)
    /\ ResolvedCentre
    /\ query.maxDistance = Infinity

\* C17, the stated ray: cast in the plane of the quad, it returned none.
C17_WitnessInPlane ==
    /\ QuadQueried(<<0, 0, 2>>, <<0, 0, -1>>)
    /\ ~query.result.ok

\* The frames in which update finds no paint location: no ray hit, no hit
\* object, a hit object without MeshPaintable, no UV.
Unresolved == {"nohit", "noobj", "nopaintable", "nouv"}

\* C18: a frame that cannot resolve a paint location runs to its return,
\* paints no dab, calls no colour hook and leaves the brush colour and the
\* stored strokes as they were.
C18_UnresolvedFramePaintsNothing ==
    frame.kind \in Unresolved =>
        /\ dabs = <<>>
        /\ pickedCalls = <<>>
        /\ brushColor = pre.color
        /\ frame.obj # "" =>
               /\ GetOrNull(lastUV, HitKey) = pre.uv
               /\ GetOrNull(lastTri, HitKey) = pre.tri

\* C18 witness: in the middle of a stroke on a surface a frame gets no UV
\* and paints nothing.
C18_Witness ==
    /\ frame.kind = "nouv"
    /\ pre.uv # <<>> /\ ~pre.lost
    /\ dabs = <<>>

\* C18, the other frames: an object without MeshPaintable is hit while a
\* stroke is stored, and the ray hits nothing.
C18_WitnessNoPaintable ==
    /\ frame.kind = "nopaintable"
    /\ lastUV # EmptyMap
    /\ dabs = <<>>

C18_WitnessNoHit ==
    /\ frame.kind \in {"nohit", "noobj"}
    /\ lastUV # EmptyMap
    /\ dabs = <<>>

\* The last call had the ray of the first call.
SameRayAsFirst ==
    /\ memo.asked /\ query.asked
    /\ query.orig = memo.orig /\ query.dir = memo.dir
    /\ query.maxDistance = memo.maxDistance

\* C19: a call with the ray of the first call returns what the first call
\* returned (uv, triangle index, local hit point) and settles on the same
\* hit, whatever calls were made in between; and every call returns what
\* it would return with the scratch vectors zeroed.
C19_Deterministic ==
    /\ SameRayAsFirst => (query.result = memo.result /\ query.best = memo.best)
    /\ (query.asked /\ query.built) =>
           query.result = GetUVFromLocalRay(cache, TheSurface.planarFallback,
                                            ZeroScratch, query.orig, query.dir,
                                            query.maxDistance).result

\* C19 witness: the ray of the first call is cast again when the scratch
\* vectors hold other values than at the first call, and resolves a UV.
C19_Witness ==
    /\ SameRayAsFirst
    /\ query.before # memo.before
    /\ query.result.ok

\* The three continuity maps of the brush that runs, and those of the
\* other brush.
OwnMaps == <<lastUV, lastTri, contactLost>>

OtherMaps == <<other.lastUV, other.lastTri, other.contactLost>>

\* The key of the scene's object of the given tag.
KeyOfTag(tag) == ObjectKey(CHOOSE o \in Objects(scene) : o.tag = tag)

\* C20: the continuity maps belong to one brush each.  An update of one
\* brush leaves the maps of the other as they were; a brush finds in its
\* maps what its own last update left there, not what the other brush
\* stored in between; so an interpolating stroke starts from the UV this
\* brush stored itself, and a brush without a stored UV for the surface
\* paints a single dab even when the other brush has one.
C20_ContinuityPerBrush ==
    /\ [][who' = who => other' = other]_allVars
    /\ [][who' # who => (OwnMaps' = OtherMaps /\ OtherMaps' = OwnMaps)]_allVars
    /\ [][(who' = who /\ frame'.kind = "paint") =>
              IF frame'.interpolated
              THEN /\ KeyOfTag(frame'.obj) \in DOMAIN lastUV
                   /\ dabs'[1].uv = lastUV[KeyOfTag(frame'.obj)]
              ELSE Len(dabs') = 1]_allVars
    /\ [][(who' = who /\ frame'.kind = "paint"
            /\ KeyOfTag(frame'.obj) \notin DOMAIN lastUV) =>
              ~frame'.interpolated]_allVars

\* C20 witness: the other brush has a live stroke on the surface, on the
\* same triangle, at another UV; this brush touches the surface for the
\* first time and paints a single dab.
C20_Witness ==
    /\ who = 1
    /\ frame.kind = "paint" /\ ~frame.interpolated
    /\ Len(dabs) = 1
    /\ pre.uv = <<>> /\ ~pre.flagged
    /\ HitKey \in DOMAIN other.lastUV
    /\ ~ContactLostAt(other.contactLost, HitKey)
    /\ other.lastUV[HitKey] # lastUV[HitKey]
    /\ other.lastTri[HitKey] = lastTri[HitKey]

\* C20, later in the same run: both brushes interpolate, each from its own
\* stored UV, the two stored UVs being different.
C20_WitnessBoth ==
    /\ frame.kind = "paint" /\ frame.interpolated
    /\ HitKey \in DOMAIN other.lastUV
    /\ ~ContactLostAt(other.contactLost, HitKey)
    /\ pre.uv # other.lastUV[HitKey]
    /\ dabs[1].uv = pre.uv

(***************************************************************************)
(* Properties of the bounding-box test, the caches and the canvas.         *)
(***************************************************************************)
\* The loop of the query without the bounding-box test: every triangle from
\* t on is given to the intersection routine.
RECURSIVE ScanEveryTriangle(_, _, _, _, _, _)
ScanEveryTriangle(c, orig, dir, maxDistance, t, best) ==
    IF t >= c.triCount THEN best
    ELSE LET p   == TriVertices(c.positions, c.triIndices, t)
             hit == RayTriangleIntersect(orig, dir, p[1], p[2], p[3], c.scale)
         IN  ScanEveryTriangle(c, orig, dir, maxDistance, t + 1,
                               IF Closer(hit, best.t, maxDistance)
                               THEN [tri |-> t, t |-> hit.t, u |-> hit.u, v |-> hit.v]
                               ELSE best)

\* The triangles of the last call whose box is apart from the ray's box.
SkippedTriangles ==
    {j \in 0..(cache.triCount - 1) :
        BoxesApart(cache.triMin[j + 1], cache.triMax[j + 1],
                   RayMin(query.orig, query.dir, query.maxDistance, cache.scale),
                   RayMax(query.orig, query.dir, query.maxDistance, cache.scale))}

\* C21: the query settles on the hit, and returns the result, that the loop
\* reaches when no triangle is skipped for its bounding box; a skipped
\* triangle has no valid intersection with the ray.
C21_BoxTestChangesNothing ==
    QueriedBuilt =>
        LET all == ScanEveryTriangle(cache, query.orig, query.dir, query.maxDistance,
                                     0, NoBest)
        IN  /\ query.best = all
            /\ query.result =
                   ResolveUV(cache, TheSurface.planarFallback, all,
                             IF all.tri = -1 THEN <<>>
                             ELSE LocalHit(query.orig, query.dir, all.t, cache.scale))
            /\ SkippedTriangles \cap ValidTriangles = {}

\* C21 witness: the box test skipped a triangle whose plane the ray line
\* crosses inside the triangle (beyond the ray's reach), and another
\* triangle was hit and returned.
C21_Witness ==
    /\ QueriedBuilt /\ query.result.ok
    /\ \E j \in SkippedTriangles : HitOf(j).ok

\* C21, the edge: the box of the returned triangle only touches the box of
\* the ray, at the ray's far end.
C21_WitnessTouching ==
    /\ QueriedBuilt /\ query.result.ok
    /\ IsFinite(query.maxDistance)
    /\ \E k \in 1..3 :
           LET rayMin == RayMin(query.orig, query.dir, query.maxDistance, cache.scale)
               rayMax == RayMax(query.orig, query.dir, query.maxDistance, cache.scale)
               j      == query.best.tri + 1
           IN  \/ <<cache.triMax[j][k], 1>> = rayMin[k]
               \/ <<cache.triMin[j][k], 1>> = rayMax[k]

\* C23: paintAtUV clamps u and v to [0, 1] and draws the dab centred at
\* x = floor(u * width) and y = floor((1 - v) * height) with flipY on,
\* floor(v * height) with flipY off, of the clamped values, so that
\* 0 <= x <= width and 0 <= y <= height, and u = 1 gives x = width; before
\* the paintable is created it draws nothing.
ClampedInput(a) == IF RLt(a, <<0, 1>>) THEN <<0, 1>> ELSE IF RLt(<<1, 1>>, a) THEN <<1, 1>> ELSE a

\* The greatest integer k with k <= a, for a rational a >= 0.
WholePart(a) == CHOOSE k \in 0..(a[1] + 1) : k * a[2] <= a[1] /\ a[1] < (k + 1) * a[2]

C23_DabCentre ==
    canvas.call.asked =>
        LET u == ClampedInput(canvas.call.u)
            v == ClampedInput(canvas.call.v)
            w == IF canvas.flipY THEN Frac(v[2] - v[1], v[2]) ELSE v
        IN  IF ~canvas.call.created
            THEN canvas.centre = <<>>
            ELSE /\ canvas.centre = <<WholePart(Frac(u[1] * canvas.width, u[2])),
                                      WholePart(Frac(w[1] * canvas.height, w[2]))>>
                 /\ canvas.centre[1] \in 0..canvas.width
                 /\ canvas.centre[2] \in 0..canvas.height
                 /\ (canvas.call.u = <<1, 1>> => canvas.centre[1] = canvas.width)

\* A call with u above 1 and v below 0 on a created paintable with flipY on:
\* the dab is centred one past the last column and one past the last row.
C23_Witness ==
    /\ canvas.call.asked /\ canvas.call.created /\ canvas.flipY
    /\ RLt(<<1, 1>>, canvas.call.u) /\ RLt(canvas.call.v, <<0, 1>>)
    /\ canvas.centre = <<canvas.width, canvas.height>>

\* A call inside the square with flipY off, and a call before start().
C23_WitnessInside ==
    /\ canvas.call.asked /\ canvas.call.created /\ ~canvas.flipY
    /\ canvas.call.u = Frac(1, 2) /\ canvas.call.v = Frac(1, CanvasH)
    /\ canvas.centre = <<canvas.width \div 2, canvas.height \div CanvasH>>

C23_WitnessNotCreated ==
    /\ canvas.call.asked /\ ~canvas.call.created /\ canvas.centre = <<>>
\* C22: once start() has run _buildMeshCaches, no step (an update with its
\* getUVFromLocalRay, getCanvasSize and paintAtUV calls) changes the cached
\* positions, UVs, triangle indices, per-triangle boxes, areas or cumulative
\* areas.
CacheFields(c) ==
    <<c.positions, c.uvs, c.triIndices, c.triMin, c.triMax, c.triAreas, c.triCum, c.triCount>>

C22_CachesNeverChange ==
    [][cache.created => CacheFields(cache') = CacheFields(cache)]_allVars

\* A stroke on a mesh of several triangles that hit a triangle other than
\* the first and painted an interpolated segment: the caches hold what
\* _buildMeshCaches computed from the mesh.
C22_Witness ==
    /\ cache.built /\ cache.triCount > 1
    /\ frame.kind = "paint" /\ Len(dabs) > 1
    /\ query.asked /\ query.best.tri > 0
    /\ canvas.call.asked /\ canvas.size = GetCanvasSize(canvas)
    /\ cache = BuildMeshCaches(SurfaceOf(scene.name))
    /\ Len(cache.triAreas) = cache.triCount /\ Len(cache.triCum) = cache.triCount + 1
C24_WitnessAlongV ==
    /\ frame.interpolated /\ Len(dabs) > 2
    /\ brushRadiusPx \div 2 < 1
    /\ dabs[1].uv[1] = dabs[Len(dabs)].uv[1] /\ dabs[1].uv[2] # dabs[Len(dabs)].uv[2]
\* C25: after every update, for every key: a last UV is stored exactly when
\* a last triangle is stored, and a contact-lost flag that is false means
\* both are stored.
C25_StrokeStateConsistent ==
    /\ DOMAIN lastUV = DOMAIN lastTri
    /\ \A k \in DOMAIN contactLost :
           contactLost[k] = FALSE => (k \in DOMAIN lastUV /\ k \in DOMAIN lastTri)

\* Two keys after a paint frame: the hit one holds a UV, a triangle and the
\* flag false, another holds neither and its flag is true.
C25_Witness ==
    /\ frame.kind = "paint"
    /\ HitKey \in DOMAIN lastUV /\ HitKey \in DOMAIN lastTri
    /\ contactLost[HitKey] = FALSE
    /\ \E k \in DOMAIN contactLost :
           k # HitKey /\ contactLost[k] = TRUE /\ k \notin DOMAIN lastUV

\* A key whose stroke is stored while its flag is true: after a frame
\* without a hit.
C25_WitnessLostButStored ==
    /\ frame.kind = "nohit"
    /\ \E k \in DOMAIN lastUV : k \in DOMAIN lastTri /\ contactLost[k] = TRUE
\* The maps before and after hold the same entries but for the keys in
\* `except`.
SameBut(before, after, except) ==
    /\ DOMAIN after \ except = DOMAIN before \ except
    /\ \A k \in DOMAIN before \ except : after[k] = before[k]

\* C26: a frame that paints on the hit surface, finds it out of range or
\* picks a colour from it leaves the last UV, the last triangle and the
\* contact-lost flag of every other key as they were; and a frame that
\* interpolates starts from the UV its key held before the frame.
C26_OtherSurfacesUntouched ==
    [][/\ frame'.kind \in {"paint", "outofrange", "pick"} =>
            /\ SameBut(lastUV, lastUV', {KeyOfTag(frame'.obj)})
            /\ SameBut(lastTri, lastTri', {KeyOfTag(frame'.obj)})
            /\ SameBut(contactLost, contactLost', {KeyOfTag(frame'.obj)})
       /\ (frame'.kind = "paint" /\ frame'.interpolated) =>
            /\ KeyOfTag(frame'.obj) \in DOMAIN lastUV
            /\ dabs'[1].uv = lastUV[KeyOfTag(frame'.obj)]]_allVars

\* After a paint frame on one surface another key still holds a stroke in
\* progress and a third key its set flag.
C26_Witness ==
    /\ frame.kind = "paint"
    /\ \E k \in DOMAIN lastUV : k # HitKey /\ contactLost[k] = FALSE
    /\ \E k \in DOMAIN contactLost : k # HitKey /\ contactLost[k] = TRUE

\* The same after an out-of-range frame and after a pick.
C26_WitnessOutOfRange ==
    /\ frame.kind = "outofrange"
    /\ \E k \in DOMAIN lastUV : k # HitKey /\ contactLost[k] = FALSE

C26_WitnessPick ==
    /\ frame.kind = "pick"
    /\ \E k \in DOMAIN lastUV : k # HitKey /\ contactLost[k] = FALSE

\* An interpolated frame on one surface while another key holds a stroke in
\* progress: frames on the two surfaces alternated.
C26_WitnessResumed ==
    /\ frame.kind = "paint" /\ frame.interpolated
    /\ dabs[1].uv # dabs[Len(dabs)].uv
    /\ \E k \in DOMAIN lastUV : k # HitKey /\ contactLost[k] = FALSE
\* The last update failed to resolve a UV on a surface that had a stroke in
\* progress: a last UV stored and its flag not set.
FailedDuringStroke ==
    /\ frame.kind = "nouv"
    /\ pre.uv # <<>> /\ ~pre.lost

\* C27: when UV resolution fails on a surface with a stroke in progress,
\* contact-lost is set under the key painting uses for the surface, with or
\* without a numeric objectId, and the next in-range hit on the surface
\* paints a single dab, not interpolated.
C27_FailureEndsStroke ==
    [][FailedDuringStroke =>
          /\ ContactLostAt(contactLost, HitKey)
          /\ (frame'.kind = "paint" /\ frame'.obj = frame.obj) =>
                 (~frame'.interpolated /\ Len(dabs') = 1)]_allVars

\* What the code does: the flag is set under hitObj.objectId; for a surface
\* without one no flag changes, the key painting uses keeps its stroke, and
\* the next hit on an adjacent triangle interpolates from the UV stored
\* before the failure.
C27_FlagUnderObjectIdOnly ==
    [][FailedDuringStroke =>
          IF HitObject.hasId
          THEN /\ ContactLostAt(contactLost, HitKey)
               /\ (frame'.kind = "paint" /\ frame'.obj = frame.obj) =>
                      (~frame'.interpolated /\ Len(dabs') = 1)
          ELSE /\ ~ContactLostAt(contactLost, HitKey)
               /\ lastUV[HitKey] = pre.uv
               /\ (frame'.kind = "paint" /\ frame'.obj = frame.obj
                      /\ SharesVertex(GetTriangleVertexIndices(HitObject.paintable,
                                                               frame'.res.triIndex),
                                      pre.tri)) =>
                      (frame'.interpolated /\ dabs'[1].uv = pre.uv)]_allVars

\* The failure on the surface without objectId, its stroke still stored
\* under the hash of its name.
C27_WitnessNoObjectId ==
    /\ FailedDuringStroke /\ ~HitObject.hasId
    /\ HitKey \in DOMAIN lastUV /\ ~ContactLostAt(contactLost, HitKey)

\* The failure on a surface with an objectId.
C27_WitnessObjectId ==
    /\ FailedDuringStroke /\ HitObject.hasId
    /\ ContactLostAt(contactLost, HitKey)
\* The colour named by the swatches of the scenes: #1a2b3c and #abc.
SwatchColour(tag) ==
    IF tag = "swatch6"
    THEN <<Frac(26, 255), Frac(43, 255), Frac(60, 255), <<1, 1>>>>
    ELSE <<Frac(170, 255), Frac(187, 255), Frac(204, 255), <<1, 1>>>>

\* C28: every frame whose hit object carries a hex token in its name,
\* paintable or not and with paintOnProximity on or off, is a pick: the
\* brush colour becomes the token's (r, g, b) with alpha 1 and
\* onPickedColor is called once; every dab is painted in the brush colour,
\* and the brush colour changes in pick frames only.
C28_PickSetsColour ==
    /\ []((frame.obj # "" /\ TokenStarts(HitObject.name) # {}) =>
             /\ frame.kind = "pick"
             /\ brushColor = SwatchColour(frame.obj)
             /\ Len(pickedCalls) = 1)
    /\ [](\A i \in DOMAIN dabs : dabs[i].color = brushColor)
    /\ [][frame'.kind # "pick" => brushColor' = brushColor]_allVars

\* A dab painted in the colour picked from the paintable swatch, in a later
\* frame.
C28_Witness ==
    /\ frame.kind = "paint"
    /\ dabs # <<>>
    /\ dabs[1].color = SwatchColour("swatch6")
    /\ brushColor # <<Frac(0, 1), Frac(0, 1), Frac(0, 1), Frac(1, 1)>>

\* A pick with paintOnProximity off from the swatch that is not paintable.
C28_WitnessProximityOff ==
    /\ frame.kind = "pick" /\ frame.obj = "swatch3"
    /\ ~paintOnProximity
    /\ brushColor = SwatchColour("swatch3")
    /\ Len(pickedCalls) = 1
\* ceil(sqrt(w^2 + h^2) / stepSize)
DiagonalSteps(w, h, stepSize) ==
    CHOOSE k \in 0..(w + h) :
        /\ k * k * stepSize * stepSize >= w * w + h * h
        /\ k > 0 => (k - 1) * (k - 1) * stepSize * stepSize < w * w + h * h

\* C29: a frame paints at most ceil(sqrt(width^2 + height^2) / stepSize) + 1
\* dabs, exactly one when it paints without interpolating, and none when it
\* does not paint.
C29_BoundedDabs ==
    IF frame.kind = "paint"
    THEN LET p        == HitObject.paintable
             half     == brushRadiusPx \div 2
             stepSize == IF half >= 1 THEN half ELSE 1
         IN  /\ Len(dabs) >= 1
             /\ Len(dabs) <= DiagonalSteps(p.width, p.height, stepSize) + 1
             /\ ~frame.interpolated => Len(dabs) = 1
    ELSE dabs = <<>>

\* A segment across the whole diagonal: the bound is met, with stepSize 1
\* and with stepSize 2.
C29_Witness ==
    /\ frame.kind = "paint" /\ frame.interpolated
    /\ brushRadiusPx \div 2 > 1
    /\ Len(dabs) > 2
    /\ Len(dabs) = DiagonalSteps(HitObject.paintable.width, HitObject.paintable.height,
                                 brushRadiusPx \div 2) + 1

C29_WitnessStepOne ==
    /\ frame.kind = "paint" /\ frame.interpolated
    /\ brushRadiusPx \div 2 < 1
    /\ Len(dabs) = DiagonalSteps(HitObject.paintable.width, HitObject.paintable.height, 1) + 1

\* A painting frame that does not interpolate although a stroke was stored.
C29_WitnessSingle ==
    /\ frame.kind = "paint" /\ ~frame.interpolated
    /\ pre.uv # <<>> /\ Len(dabs) = 1
\* The entries pushed as the placeholder of request r.
PlaceholderOf(conv, r) == {i \in 1..Len(conv) : conv[i].req = r}

\* Nothing is awaited: every request and every capture has completed.
AllCompleted == chat.pending = {} /\ chat.capturing = 0

Thinking(conv) == {i \in 1..Len(conv) : conv[i].text[1] = "thinking"}

\* C30: when sends and camera errors overlap, the reply or error of a
\* request replaces the placeholder pushed for that request, and once every
\* request has completed no entry reads '...thinking'.
C30_OwnPlaceholderReplaced ==
    /\ [][\A r \in chat.pending \ chat'.pending :
              \A i \in PlaceholderOf(chat.conversation, r) :
                  /\ chat'.conversation[i].text[1] \in {"reply", "error"}
                  /\ chat'.conversation[i].text[2] = r]_allVars
    /\ [](AllCompleted => Thinking(chat.conversation) = {})

\* What the code does: the reply or error of a request goes into the last
\* assistant entry of the conversation, whichever request or camera error
\* pushed it, and into a new entry when there is none; the placeholder of
\* the request is replaced only when it is that last entry.
C30_LastAssistantReplaced ==
    [][\A r \in chat.pending \ chat'.pending :
          LET conv == chat.conversation
              last == LastAssistant(conv, Len(conv))
          IN  /\ last > 0 => /\ Len(chat'.conversation) = Len(conv)
                             /\ chat'.conversation[last].text[2] = r
                             /\ \A i \in 1..Len(conv) :
                                    i # last => chat'.conversation[i] = conv[i]
              /\ last = 0 => /\ Len(chat'.conversation) = 1
                             /\ chat'.conversation[1].text[2] = r]_allVars

\* Two sends overlapped and both have completed: the second placeholder
\* holds the reply of the second request, the first still reads
\* '...thinking'.
C30_WitnessLeftThinking ==
    /\ AllCompleted
    /\ \E i \in Thinking(chat.conversation) : chat.conversation[i].req = 1
    /\ \E i \in PlaceholderOf(chat.conversation, 2) :
           chat.conversation[i].text = <<"reply", 2>>

\* A reply that went into a camera error's entry.
C30_WitnessOverCameraError ==
    \E i \in 1..Len(chat.conversation) :
        /\ chat.conversation[i].req = 0
        /\ chat.conversation[i].text[1] = "reply"
        /\ i > 2
        /\ Thinking(chat.conversation) # {}

\* A send without overlap: its reply is in its own placeholder.
C30_WitnessAlone ==
    /\ AllCompleted /\ chat.requests = 1
    /\ \E i \in PlaceholderOf(chat.conversation, 1) :
           chat.conversation[i].text = <<"reply", 1>>
====
